---------------------------- MODULE Spec2Model ----------------------------
(***************************************************************************)
(* A model of the indexing core of bwt:                                    *)
(*   - the TxStatus / HistoryEntry orders          (src/src/addrman.rs,    *)
(*                                                  src/src/store.rs)      *)
(*   - MemoryStore and its mutators                (src/src/store.rs)      *)
(*   - Index, the address manager's own index      (src/src/addrman.rs)    *)
(*   - load_transactions_since, the paginated sync (src/src/addrman.rs)    *)
(*                                                                         *)
(* Three specifications share the module.  Each one moves the variables of *)
(* one component and leaves the others at their initial value:             *)
(*   SpecStore  MemoryStore driven through its public mutators             *)
(*   SpecIndex  Index driven through process_ltx / process_gtx             *)
(*   SpecSync   one caller of load_transactions_since against a node whose *)
(*              chain tip and transaction feed move underneath it          *)
(***************************************************************************)
EXTENDS Integers, Sequences, FiniteSets, TLC

(***************************************************************************)
(* Bounds of the model.                                                    *)
(***************************************************************************)
\* block heights a confirmed status may carry are 1..MaxHeight
MaxHeight == 2

\* transaction ids, ordered as Txid orders its bytes
Txids == {1, 2}
Heights == 1..MaxHeight
ScriptHashes == {"SH1", "SH2"}
Addresses == {"A1", "A2"}
Origins == {"standalone", "hd"}
Vouts == {0}
Vins == {0}
Values == {5000}

(***************************************************************************)
(* Status Model                                                            *)
(***************************************************************************)
Conflicted == [tag |-> "Conflicted", height |-> 0]
Unconfirmed == [tag |-> "Unconfirmed", height |-> 0]
Confirmed(h) == [tag |-> "Confirmed", height |-> h]

TxStatus == {Conflicted, Unconfirmed} \cup {Confirmed(h) : h \in Heights}

is_viable(status) == status.tag \in {"Confirmed", "Unconfirmed"}
is_confirmed(status) == status.tag = "Confirmed"
is_unconfirmed(status) == status.tag = "Unconfirmed"

\* Ordering as an integer: -1 Less, 0 Equal, 1 Greater
IntCmp(a, b) == IF a < b THEN -1 ELSE IF a > b THEN 1 ELSE 0

\* u32::cmp.  A u32 v is written as the integer v when v < 2^31 and as v - 2^32
\* otherwise (the checker's integers are 32 bits wide), so a negative integer stands
\* for a value above every non-negative one
U32Cmp(a, b) ==
    IF (a < 0) = (b < 0) THEN IntCmp(a, b) ELSE IF a < 0 THEN 1 ELSE -1

\* impl Ord for TxStatus
TxStatusCmp(a, b) ==
    CASE a.tag = "Confirmed" ->
            (CASE b.tag = "Confirmed" -> U32Cmp(a.height, b.height)
               [] OTHER -> 1)
      [] a.tag = "Unconfirmed" ->
            (CASE b.tag = "Confirmed" -> -1
               [] b.tag = "Unconfirmed" -> 0
               [] OTHER -> 1)
      [] OTHER ->
            (CASE b.tag = "Conflicted" -> 0
               [] OTHER -> -1)

HistoryEntry(txid, status) == [txid |-> txid, status |-> status]

\* impl Ord for HistoryEntry in store.rs: by status, then by txid
StoreHistoryCmp(a, b) ==
    LET c == TxStatusCmp(a.status, b.status)
    IN  IF c # 0 THEN c ELSE IntCmp(a.txid, b.txid)

\* impl Ord for HistoryEntry in addrman.rs: by status alone
IndexHistoryCmp(a, b) == TxStatusCmp(a.status, b.status)

(***************************************************************************)
(* BTreeSet<HistoryEntry>: a sequence kept strictly increasing under the   *)
(* element order ord.  Two elements that compare Equal are the same key of *)
(* the set, whatever their fields.                                         *)
(***************************************************************************)
\* the Ord of the element type: HistoryEntry of store.rs or of addrman.rs
HistoryCmp(ord, a, b) ==
    IF ord = "store" THEN StoreHistoryCmp(a, b) ELSE IndexHistoryCmp(a, b)

BTContains(ord, s, e) == \E i \in 1..Len(s) : HistoryCmp(ord, s[i], e) = 0

\* insert keeps the element already present when one compares Equal
BTInsert(ord, s, e) ==
    IF BTContains(ord, s, e)
    THEN s
    ELSE LET k == Cardinality({i \in 1..Len(s) : HistoryCmp(ord, s[i], e) < 0})
         IN  SubSeq(s, 1, k) \o <<e>> \o SubSeq(s, k + 1, Len(s))

\* remove takes out the element that compares Equal to e
BTRemove(ord, s, e) ==
    LET keep == {i \in 1..Len(s) : HistoryCmp(ord, s[i], e) # 0}
        F[i \in 0..Len(s)] ==
            IF i = 0 THEN << >>
            ELSE IF i \in keep THEN Append(F[i - 1], s[i]) ELSE F[i - 1]
    IN  F[Len(s)]

BTElems(s) == {s[i] : i \in 1..Len(s)}


VARIABLES
    \* MemoryStore (store.rs)
    scripthashes,     \* ScriptHash -> [origin, history], the keys present only
    transactions,     \* Txid -> [status, funding, spending], the keys present only
    mempool,          \* the key set of the mempool map (every value is None here)
    panicked,         \* an assertion, unwrap or expect of the last call failed
    overwrites,       \* the number of allow_overwrite = true calls made so far
    last              \* the last call made and what it returned

storeVars == <<scripthashes, transactions, mempool, panicked, overwrites, last>>

(***************************************************************************)
(* MemoryStore.  Every operator below takes the store as the record        *)
(*   s = [sh |-> scripthashes, tx |-> transactions, mp |-> mempool]        *)
(* and returns the store after the call together with                      *)
(*   ok   FALSE when an assertion, unwrap() or expect() of the call fails  *)
(*   ret  the value the call returns                                       *)
(***************************************************************************)
EmptyMap == [x \in {} |-> 0]

FundingInfo(sh, value) == [sh |-> sh, value |-> value]
SpendingInfo(sh, prevout, value) == [sh |-> sh, prevout |-> prevout, value |-> value]
OutPoint(txid, vout) == [txid |-> txid, vout |-> vout]

\* TxEntry::new
NewTxEntry(status) == [status |-> status, funding |-> EmptyMap, spending |-> EmptyMap]

\* TxEntry::scripthashes
TxScriptHashes(e) ==
    {e.funding[v].sh : v \in DOMAIN e.funding} \cup {e.spending[v].sh : v \in DOMAIN e.spending}

Store(sh, tx, mp) == [sh |-> sh, tx |-> tx, mp |-> mp]
Result(s, ok, ret) == [sh |-> s.sh, tx |-> s.tx, mp |-> s.mp, ok |-> ok, ret |-> ret]

\* MemoryStore::index_scripthash
index_scripthash(s, scripthash, origin) ==
    IF scripthash \in DOMAIN s.sh
    THEN Result(s, s.sh[scripthash].origin = origin, FALSE)
    ELSE Result(Store(s.sh @@ (scripthash :> [origin |-> origin, history |-> << >>]), s.tx, s.mp),
                TRUE, TRUE)

\* update_tx_status that inserts the new entry and leaves the old one in place
update_tx_status_keep_old(s, txid, old_status, new_status) ==
    LET S == TxScriptHashes(s.tx[txid])
        new_txhist == HistoryEntry(txid, new_status)
    IN  Result(Store([x \in DOMAIN s.sh |->
                        IF x \in S
                        THEN [s.sh[x] EXCEPT !.history = BTInsert("store", @, new_txhist)]
                        ELSE s.sh[x]],
                     s.tx,
                     IF old_status = Unconfirmed THEN s.mp \ {txid}
                     ELSE IF new_status = Unconfirmed THEN s.mp \cup {txid}
                     ELSE s.mp),
               S \subseteq DOMAIN s.sh, TRUE)

\* update_tx_status that leaves the mempool map alone
update_tx_status_no_mempool(s, txid, old_status, new_status) ==
    LET S == TxScriptHashes(s.tx[txid])
        old_txhist == HistoryEntry(txid, old_status)
        new_txhist == HistoryEntry(txid, new_status)
    IN  Result(Store([x \in DOMAIN s.sh |->
                        IF x \in S
                        THEN [s.sh[x] EXCEPT !.history =
                                BTInsert("store", BTRemove("store", @, old_txhist), new_txhist)]
                        ELSE s.sh[x]],
                     s.tx, s.mp),
               S \subseteq DOMAIN s.sh, TRUE)

\* MemoryStore::update_tx_status
update_tx_status(s, txid, old_status, new_status) ==
    LET S == TxScriptHashes(s.tx[txid])
        old_txhist == HistoryEntry(txid, old_status)
        new_txhist == HistoryEntry(txid, new_status)
        \* expect("missing expected script entry"), assert!(remove), assert!(insert)
        histOk(x) ==
            /\ x \in DOMAIN s.sh
            /\ BTContains("store", s.sh[x].history, old_txhist)
            /\ ~BTContains("store", BTRemove("store", s.sh[x].history, old_txhist), new_txhist)
        \* assert!(mempool.remove(..).is_some()), assert!(mempool.insert(..).is_none())
        mpOk == IF old_status = Unconfirmed THEN txid \in s.mp
                ELSE IF new_status = Unconfirmed THEN txid \notin s.mp
                ELSE TRUE
    IN  Result(Store([x \in DOMAIN s.sh |->
                        IF x \in S
                        THEN [s.sh[x] EXCEPT !.history =
                                BTInsert("store", BTRemove("store", @, old_txhist), new_txhist)]
                        ELSE s.sh[x]],
                     s.tx,
                     IF old_status = Unconfirmed THEN s.mp \ {txid}
                     ELSE IF new_status = Unconfirmed THEN s.mp \cup {txid}
                     ELSE s.mp),
               (\A x \in S : histOk(x)) /\ mpOk, TRUE)

\* upsert_tx reporting a change only when it creates the TxEntry
upsert_tx_changed_on_insert_only(s, txid, status) ==
    IF txid \in DOMAIN s.tx
    THEN IF s.tx[txid].status # status
         THEN LET r == update_tx_status(Store(s.sh, [s.tx EXCEPT ![txid].status = status], s.mp),
                                        txid, s.tx[txid].status, status)
              IN  Result(r, r.ok, FALSE)
         ELSE Result(s, TRUE, FALSE)
    ELSE LET tx == s.tx @@ (txid :> NewTxEntry(status))
         IN  IF status = Unconfirmed
             THEN Result(Store(s.sh, tx, s.mp \cup {txid}), txid \notin s.mp, TRUE)
             ELSE Result(Store(s.sh, tx, s.mp), TRUE, TRUE)

\* MemoryStore::upsert_tx
upsert_tx(s, txid, status) ==
    IF txid \in DOMAIN s.tx
    THEN IF s.tx[txid].status # status
         THEN LET r == update_tx_status(Store(s.sh, [s.tx EXCEPT ![txid].status = status], s.mp),
                                        txid, s.tx[txid].status, status)
              IN  Result(r, r.ok, TRUE)
         ELSE Result(s, TRUE, FALSE)
    ELSE LET tx == s.tx @@ (txid :> NewTxEntry(status))
         IN  IF status = Unconfirmed
             THEN Result(Store(s.sh, tx, s.mp \cup {txid}), txid \notin s.mp, TRUE)
             ELSE Result(Store(s.sh, tx, s.mp), TRUE, TRUE)

\* MemoryStore::index_history_entry
index_history_entry(s, scripthash, txhist) ==
    IF scripthash \in DOMAIN s.sh
    THEN Result(Store([s.sh EXCEPT ![scripthash].history = BTInsert("store", @, txhist)],
                      s.tx, s.mp),
                TRUE, ~BTContains("store", s.sh[scripthash].history, txhist))
    ELSE Result(s, FALSE, FALSE)

\* index_tx_output_funding written with HashMap::insert in place of
\* entry(vout).or_insert_with: a recorded output is replaced
index_tx_output_funding_insert(s, txid, vout, funding_info) ==
    IF txid \notin DOMAIN s.tx
    THEN Result(s, FALSE, FALSE)
    ELSE LET tx == [s.tx EXCEPT ![txid].funding =
                       [v \in DOMAIN @ \cup {vout} |-> IF v = vout THEN funding_info ELSE @[v]]]
             r == index_history_entry(Store(s.sh, tx, s.mp), funding_info.sh,
                                      HistoryEntry(txid, s.tx[txid].status))
         IN  Result(r, r.ok, vout \notin DOMAIN s.tx[txid].funding)

\* MemoryStore::index_tx_output_funding
index_tx_output_funding(s, txid, vout, funding_info) ==
    IF txid \notin DOMAIN s.tx
    THEN Result(s, FALSE, FALSE)
    ELSE IF vout \in DOMAIN s.tx[txid].funding
         THEN Result(s, TRUE, FALSE)
         ELSE LET tx == [s.tx EXCEPT ![txid].funding = @ @@ (vout :> funding_info)]
                  r == index_history_entry(Store(s.sh, tx, s.mp), funding_info.sh,
                                           HistoryEntry(txid, s.tx[txid].status))
              IN  Result(r, r.ok, TRUE)

\* index_tx_inputs_spending without its assertion: the spending map is
\* replaced whether or not the caller allowed it
index_tx_inputs_spending_unchecked(s, txid, spending, allow_overwrite) ==
    IF txid \notin DOMAIN s.tx
    THEN Result(s, FALSE, FALSE)
    ELSE LET tx == [s.tx EXCEPT ![txid].spending = spending]
             added_scripthashes == TxScriptHashes(tx[txid])
             tx_hist == HistoryEntry(txid, tx[txid].status)
         IN  Result(Store([x \in DOMAIN s.sh |->
                             IF x \in added_scripthashes
                             THEN [s.sh[x] EXCEPT !.history = BTInsert("store", @, tx_hist)]
                             ELSE s.sh[x]],
                          tx, s.mp),
                    added_scripthashes \subseteq DOMAIN s.sh, FALSE)

\* MemoryStore::index_tx_inputs_spending
index_tx_inputs_spending(s, txid, spending, allow_overwrite) ==
    IF txid \notin DOMAIN s.tx
    THEN Result(s, FALSE, FALSE)
    ELSE IF ~(allow_overwrite \/ DOMAIN s.tx[txid].spending = {})
         THEN Result(s, FALSE, FALSE)
         ELSE LET tx == [s.tx EXCEPT ![txid].spending = spending]
                  added_scripthashes == TxScriptHashes(tx[txid])
                  tx_hist == HistoryEntry(txid, tx[txid].status)
              IN  Result(Store([x \in DOMAIN s.sh |->
                                  IF x \in added_scripthashes
                                  THEN [s.sh[x] EXCEPT !.history = BTInsert("store", @, tx_hist)]
                                  ELSE s.sh[x]],
                               tx, s.mp),
                         added_scripthashes \subseteq DOMAIN s.sh, FALSE)

\* util::remove_if as purge_tx uses it on the scripthashes map: the closure removes
\* old_txhist from the entry's history (asserting it was there) and the entry is
\* dropped when the history is left empty; the call returns whether the key existed
remove_if_history(sh, scripthash, old_txhist) ==
    IF scripthash \notin DOMAIN sh
    THEN [sh |-> sh, ok |-> TRUE, had_entry |-> FALSE]
    ELSE LET h == BTRemove("store", sh[scripthash].history, old_txhist)
         IN  [sh |-> IF h = << >>
                     THEN [x \in DOMAIN sh \ {scripthash} |-> sh[x]]
                     ELSE [sh EXCEPT ![scripthash].history = h],
              ok |-> BTContains("store", sh[scripthash].history, old_txhist),
              had_entry |-> TRUE]

\* MemoryStore::purge_tx (built without the track-spends feature)
purge_tx(s, txid) ==
    IF txid \notin DOMAIN s.tx
    THEN Result(s, TRUE, FALSE)
    ELSE LET old_entry == s.tx[txid]
             old_txhist == HistoryEntry(txid, old_entry.status)
             S == TxScriptHashes(old_entry)
             one(x) == remove_if_history(s.sh, x, old_txhist)
             \* the scripthashes of old_entry are distinct keys: the removals commute
             kept == {x \in DOMAIN s.sh : x \notin S \/ x \in DOMAIN one(x).sh}
         IN  Result(Store([x \in kept |-> IF x \in S THEN one(x).sh[x] ELSE s.sh[x]],
                          [t \in DOMAIN s.tx \ {txid} |-> s.tx[t]],
                          IF is_unconfirmed(old_entry.status) THEN s.mp \ {txid} ELSE s.mp),
                    /\ is_unconfirmed(old_entry.status) => txid \in s.mp
                    /\ \A x \in S : one(x).ok /\ one(x).had_entry,
                    TRUE)

(***************************************************************************)
(* SpecStore: the public mutators of MemoryStore, called in any order with *)
(* any arguments.  A call whose assertion fails panics: the process aborts *)
(* and the in-memory store is gone with it, so panicked is set, the store  *)
(* variables are emptied and no further call is made.                      *)
(***************************************************************************)
\* the allow_overwrite = true calls made so far are counted, to bound them
MaxOverwrites == 1

CurStore == Store(scripthashes, transactions, mempool)

Call(op, txid, ret) == [op |-> op, txid |-> txid, ret |-> ret]

Commit(r, call) ==
    /\ ~panicked
    /\ last' = call
    /\ IF r.ok
       THEN /\ scripthashes' = r.sh
            /\ transactions' = r.tx
            /\ mempool' = r.mp
            /\ panicked' = FALSE
       ELSE /\ scripthashes' = EmptyMap
            /\ transactions' = EmptyMap
            /\ mempool' = {}
            /\ panicked' = TRUE

\* the origin a script was derived from: the first index_scripthash call for a
\* scripthash presents it; a later call may present another one
OriginOf(sh) == IF sh = "SH1" THEN "standalone" ELSE "hd"

SpendingMaps ==
    UNION {[D -> {SpendingInfo(sh, OutPoint(1, 0), v) : sh \in ScriptHashes, v \in Values}] :
             D \in SUBSET Vins}

StoreInit ==
    /\ scripthashes = EmptyMap
    /\ transactions = EmptyMap
    /\ mempool = {}
    /\ panicked = FALSE
    /\ overwrites = 0
    /\ last = Call("new", 0, FALSE)

IndexScripthash(sh, origin) ==
    LET r == index_scripthash(CurStore, sh, origin)
    IN  Commit(r, Call("index_scripthash", 0, r.ret)) /\ UNCHANGED overwrites

UpsertTx(txid, status) ==
    LET r == upsert_tx(CurStore, txid, status)
    IN  Commit(r, Call("upsert_tx", txid, r.ret)) /\ UNCHANGED overwrites

IndexTxOutputFunding(txid, vout, funding_info) ==
    LET r == index_tx_output_funding(CurStore, txid, vout, funding_info)
    IN  Commit(r, Call("index_tx_output_funding", txid, r.ret)) /\ UNCHANGED overwrites

IndexTxInputsSpending(txid, spending, allow_overwrite) ==
    LET r == index_tx_inputs_spending(CurStore, txid, spending, allow_overwrite)
    IN  /\ allow_overwrite => overwrites < MaxOverwrites
        /\ overwrites' = IF allow_overwrite THEN overwrites + 1 ELSE overwrites
        /\ Commit(r, Call("index_tx_inputs_spending", txid, allow_overwrite))

PurgeTx(txid) ==
    LET r == purge_tx(CurStore, txid)
    IN  Commit(r, Call("purge_tx", txid, r.ret)) /\ UNCHANGED overwrites

ScripthashStep ==
    \E sh \in ScriptHashes, origin \in Origins :
       /\ sh \notin DOMAIN scripthashes => origin = OriginOf(sh)
       /\ IndexScripthash(sh, origin)

UpsertStep == \E txid \in Txids, status \in TxStatus : UpsertTx(txid, status)

FundingStep ==
    \E txid \in Txids, vout \in Vouts, sh \in ScriptHashes, v \in Values :
       IndexTxOutputFunding(txid, vout, FundingInfo(sh, v))

SpendingStep ==
    \E txid \in Txids, spending \in SpendingMaps, allow_overwrite \in BOOLEAN :
       IndexTxInputsSpending(txid, spending, allow_overwrite)

PurgeStep == \E txid \in Txids : PurgeTx(txid)

(***************************************************************************)
(* Index (addrman.rs): the address manager's own index.  Its histories are *)
(* BTreeSets ordered by IndexHistoryCmp.  Every operator takes the index   *)
(* as the record i = [sh |-> scripthashes, tx |-> transactions,            *)
(* used |-> the addresses marked as used at the watcher].                  *)
(***************************************************************************)
VARIABLES
    index_scripthashes,   \* ScriptHash -> [address, history], the keys present only
    index_transactions,   \* Txid -> [status, fee], the keys present only
    watcher_used,         \* the addresses passed to HDWatcher::mark_address(.., true)
    index_last            \* the last call made on the index and the addresses it indexed

indexVars == <<index_scripthashes, index_transactions, watcher_used, index_last>>

Categories == {"receive", "immature"}
\* TxCategory::should_process: whether a record of this category is indexed at all
should_process(category) == category \in {"send", "receive"}

\* util::address_to_scripthash: the hash of the address's output script
address_to_scripthash(address) == IF address = "A1" THEN "SH1" ELSE "SH2"

\* Option<u64>
None == [some |-> FALSE, v |-> 0]
Some(v) == [some |-> TRUE, v |-> v]
Fees == {None, Some(100)}

\* TxStatus::new.  tip_height - (confirmations as u32) + 1 is u32 arithmetic; the
\* result is kept in the encoding U32Cmp reads, in which the integer sum below is the
\* wrapped u32 result (what a release build computes)
TxStatus_new(confirmations, tip_height) ==
    IF confirmations > 0
    THEN Confirmed(tip_height - confirmations + 1)
    ELSE IF confirmations = 0 THEN Unconfirmed
    ELSE Conflicted

Idx(sh, tx, used) == [sh |-> sh, tx |-> tx, used |-> used]

\* Index::update_tx_status
Index_update_tx_status(i, txid, old_status, new_status) ==
    IF old_status = new_status
    THEN i
    ELSE LET old_txhist == HistoryEntry(txid, old_status)
             new_txhist == HistoryEntry(txid, new_status)
         IN  Idx([x \in DOMAIN i.sh |->
                    IF BTContains("index", i.sh[x].history, old_txhist)
                    THEN [i.sh[x] EXCEPT !.history =
                            BTInsert("index", BTRemove("index", @, old_txhist), new_txhist)]
                    ELSE i.sh[x]],
                 i.tx, i.used)

\* Index::index_tx_entry (the caller has checked that txentry.status is viable)
Index_index_tx_entry(i, txid, txentry) ==
    IF txid \in DOMAIN i.tx
    THEN LET curr_entry == i.tx[txid]
             fee == IF ~curr_entry.fee.some /\ txentry.fee.some THEN txentry.fee ELSE curr_entry.fee
         IN  IF curr_entry.status # txentry.status
             THEN Index_update_tx_status(
                      Idx(i.sh, [i.tx EXCEPT ![txid] = [status |-> txentry.status, fee |-> fee]], i.used),
                      txid, curr_entry.status, txentry.status)
             ELSE Idx(i.sh, [i.tx EXCEPT ![txid].fee = fee], i.used)
    ELSE Idx(i.sh, i.tx @@ (txid :> txentry), i.used)

\* Index::index_address_history
Index_index_address_history(i, address, txhist) ==
    LET scripthash == address_to_scripthash(address)
    IN  IF scripthash \in DOMAIN i.sh
        THEN Idx([i.sh EXCEPT ![scripthash].history = BTInsert("index", @, txhist)],
                 i.tx, i.used)
        ELSE Idx(i.sh @@ (scripthash :> [address |-> address, history |-> <<txhist>>]),
                 i.tx, i.used \cup {address})

\* Index::purge_tx
Index_purge_tx(i, txid) ==
    IF txid \in DOMAIN i.tx
    THEN LET old_txhist == HistoryEntry(txid, i.tx[txid].status)
             after(x) == BTRemove("index", i.sh[x].history, old_txhist)
         IN  Idx([x \in {y \in DOMAIN i.sh : Len(after(y)) > 0} |->
                    [i.sh[x] EXCEPT !.history = after(x)]],
                 [t \in DOMAIN i.tx \ {txid} |-> i.tx[t]],
                 i.used)
    ELSE i

\* Index::process_ltx; ltx = [txid, address, category, confirmations, fee]
Index_process_ltx(i, ltx, tip_height) ==
    IF ~should_process(ltx.category)
    THEN i
    ELSE LET status == TxStatus_new(ltx.confirmations, tip_height)
         IN  IF ~is_viable(status)
             THEN Index_purge_tx(i, ltx.txid)
             ELSE Index_index_address_history(
                      Index_index_tx_entry(i, ltx.txid, [status |-> status, fee |-> ltx.fee]),
                      ltx.address, HistoryEntry(ltx.txid, status))

\* the loop of process_gtx over gtx.details, from detail k on
RECURSIVE Index_gtx_details(_, _, _, _)
Index_gtx_details(i, details, k, txhist) ==
    IF k > Len(details)
    THEN i
    ELSE Index_gtx_details(
             IF should_process(details[k].category)
             THEN Index_index_address_history(i, details[k].address, txhist)
             ELSE i,
             details, k + 1, txhist)

\* Index::process_gtx; gtx = [txid, confirmations, fee, details]
Index_process_gtx(i, gtx, tip_height) ==
    LET status == TxStatus_new(gtx.confirmations, tip_height)
    IN  IF ~is_viable(status)
        THEN Index_purge_tx(i, gtx.txid)
        ELSE Index_gtx_details(
                 Index_index_tx_entry(i, gtx.txid, [status |-> status, fee |-> gtx.fee]),
                 gtx.details, 1, HistoryEntry(gtx.txid, status))

\* Index::get_history
Index_get_history(i, scripthash) ==
    IF scripthash \in DOMAIN i.sh THEN i.sh[scripthash].history ELSE << >>

(***************************************************************************)
(* SpecIndex: process_ltx and process_gtx called with any record the node  *)
(* can report at a tip height in Heights: confirmations never exceed the   *)
(* tip height, and a negative count marks a conflicted transaction.        *)
(***************************************************************************)
\* a gettransaction result lists at most MaxDetails details
MaxDetails == 2

CurIndex == Idx(index_scripthashes, index_transactions, watcher_used)

Details ==
    UNION {[1..n -> {[category |-> c, address |-> a] : c \in Categories, a \in Addresses}] :
             n \in 0..MaxDetails}

IndexInit ==
    /\ index_scripthashes = EmptyMap
    /\ index_transactions = EmptyMap
    /\ watcher_used = {}
    /\ index_last = [op |-> "new", txid |-> 0, addresses |-> {}]

SetIndex(i) ==
    /\ index_scripthashes' = i.sh
    /\ index_transactions' = i.tx
    /\ watcher_used' = i.used

\* index_last.addresses: the addresses the call passed to index_address_history
ProcessLtx(ltx, tip_height) ==
    /\ SetIndex(Index_process_ltx(CurIndex, ltx, tip_height))
    /\ index_last' =
          [op |-> "process_ltx", txid |-> ltx.txid,
           addresses |-> IF should_process(ltx.category)
                            /\ is_viable(TxStatus_new(ltx.confirmations, tip_height))
                         THEN {ltx.address} ELSE {}]

ProcessGtx(gtx, tip_height) ==
    /\ SetIndex(Index_process_gtx(CurIndex, gtx, tip_height))
    /\ index_last' =
          [op |-> "process_gtx", txid |-> gtx.txid,
           addresses |-> IF is_viable(TxStatus_new(gtx.confirmations, tip_height))
                         THEN {gtx.details[k].address :
                                 k \in {j \in 1..Len(gtx.details) : should_process(gtx.details[j].category)}}
                         ELSE {}]

LtxStep ==
    \E tip_height \in Heights, confirmations \in -1..MaxHeight, txid \in Txids,
       address \in Addresses, category \in Categories, fee \in Fees :
       /\ confirmations <= tip_height
       /\ ProcessLtx([txid |-> txid, address |-> address, category |-> category,
                      confirmations |-> confirmations, fee |-> fee], tip_height)

GtxStep ==
    \E tip_height \in Heights, confirmations \in -1..MaxHeight, txid \in Txids,
       details \in Details, fee \in Fees :
       /\ confirmations <= tip_height
       /\ ProcessGtx([txid |-> txid, confirmations |-> confirmations, fee |-> fee,
                      details |-> details], tip_height)

(***************************************************************************)
(* Sync Driver: load_transactions_since against a node.                    *)
(*                                                                         *)
(* The node: node_chain[h] is the hash of the block at height h of the     *)
(* best chain, so the tip height is Len(node_chain); block hashes are      *)
(* never reused.  node_feed is the wallet's transaction list, oldest       *)
(* first; a row's height is the height of the block that confirms it, 0    *)
(* while it is in the mempool and -1 once it conflicts with the chain.     *)
(***************************************************************************)
VARIABLES
    node_chain, node_next_hash, node_feed,
    \* the locals of the running load_transactions_since call
    pc,              \* the node call the driver makes next, or how the pass ended
    init_per_page, start_height, per_page, start_index, oldest_seen,
    tip_height, tip_hash,
    chunk,           \* the page last fetched
    exhausted,
    \* what the pass has done so far
    handled,         \* the calls of chunk_handler, oldest first: [rows, tip_height]
    restarts,        \* the restarts of the fetch so far
    last_restart,    \* why the fetch last restarted: "none", "tip" or "overlap"
    env_changed,     \* the tip or the feed changed since the pass began
    page_no          \* the listtransactions requests made since the last (re)start

nodeVars == <<node_chain, node_next_hash, node_feed>>
driverVars == <<pc, init_per_page, start_height, per_page, start_index, oldest_seen,
                tip_height, tip_hash, chunk, exhausted>>
passVars == <<handled, restarts, last_restart, env_changed, page_no>>
syncVars == <<nodeVars, driverVars, passVars>>

\* the wallet lists at most MaxFeed rows and the node mines at most MaxBlocks blocks
MaxFeed == 3
MaxBlocks == 4
\* a pass starts with a page size in 1..MaxInitPerPage out of the idle state
MaxInitPerPage == 2
\* the model stops a pass that asks for more than MaxPerPage rows or restarts
\* more than MaxRestarts times
MaxPerPage == 4
MaxRestarts == 2

FeedAddresses == {"A1"}

\* confirmations the node reports for a feed row at its current tip
Confirmations(row, chain) == IF row.height > 0 THEN Len(chain) - row.height + 1 ELSE row.height

\* the node's listtransactions "*" count skip true: the count most recent rows after
\* skipping the skip most recent ones, oldest first
listtransactions(feed, chain, count, skip) ==
    LET hi == Len(feed) - skip
        lo == IF hi - count + 1 < 1 THEN 1 ELSE hi - count + 1
    IN  IF hi < 1
        THEN << >>
        ELSE [k \in 1..(hi - lo + 1) |->
                [txid |-> feed[lo + k - 1].txid, address |-> feed[lo + k - 1].address,
                 category |-> feed[lo + k - 1].category,
                 confirmations |-> Confirmations(feed[lo + k - 1], chain)]]

\* the node's getbestblockhash
get_best_block_hash(chain) == chain[Len(chain)]

NoEntry == [some |-> FALSE, txid |-> 0, address |-> ""]
SomeEntry(ltx) == [some |-> TRUE, txid |-> ltx.txid, address |-> ltx.address]

\* a tip check that never sees a change
TipChangedNever(captured_tip_hash, best_block_hash) == FALSE

\* line 509: tip_hash != rpc.get_best_block_hash()?
TipChanged(captured_tip_hash, best_block_hash) == captured_tip_hash # best_block_hash

\* line 516: oldest_seen.is_some() && chunk.pop().map(|ltx| (ltx.txid, ltx.address)) != oldest_seen
OverlapMismatch(seen, fetched) ==
    /\ seen.some
    /\ IF fetched = << >> THEN TRUE ELSE SomeEntry(fetched[Len(fetched)]) # seen

\* the chunk after line 516: its last row is popped when oldest_seen is Some
AfterPop(seen, fetched) ==
    IF seen.some /\ fetched # << >> THEN SubSeq(fetched, 1, Len(fetched) - 1) ELSE fetched

\* lines 526-527: last.confirmations > 0 && tip_height - last.confirmations as u32 + 1 < start_height
BelowStartHeight(ltx, tip, floor) ==
    ltx.confirmations > 0 /\ U32Cmp(tip - ltx.confirmations + 1, floor) < 0

\* line 494, 532: while { ...; exhausted } { ... } runs its body again while the
\* condition block yields true
LoopContinues(is_exhausted) == is_exhausted

SyncInit ==
    /\ node_chain = <<1>>
    /\ node_next_hash = 2
    /\ node_feed = << >>
    /\ pc = "idle"
    /\ init_per_page = 0
    /\ start_height = 0
    /\ per_page = 0
    /\ start_index = 0
    /\ oldest_seen = NoEntry
    /\ tip_height = 0
    /\ tip_hash = 0
    /\ chunk = << >>
    /\ exhausted = FALSE
    /\ handled = << >>
    /\ restarts = 0
    /\ last_restart = "none"
    /\ env_changed = FALSE
    /\ page_no = 0

Running == pc \in {"get_block_count", "get_block_hash", "listtransactions", "get_best_block_hash"}

EnvStep == env_changed' = (env_changed \/ Running)

\* ---- the node and the wallet move on their own
NewTxWithin(feed_bound) ==
    /\ pc = "idle" \/ Running
    /\ Len(node_feed) < feed_bound
    /\ \E address \in FeedAddresses :
          node_feed' = Append(node_feed, [txid |-> Len(node_feed) + 1, address |-> address,
                                          category |-> "receive", height |-> 0])
    /\ EnvStep
    /\ UNCHANGED <<node_chain, node_next_hash, driverVars, handled, restarts, last_restart, page_no>>

NewTx == NewTxWithin(MaxFeed)

\* a block is mined on the tip; it confirms the whole mempool or nothing
NewBlock ==
    /\ pc = "idle" \/ Running
    /\ node_next_hash <= MaxBlocks
    /\ Len(node_chain) < MaxHeight
    /\ node_chain' = Append(node_chain, node_next_hash)
    /\ node_next_hash' = node_next_hash + 1
    /\ \E confirm \in BOOLEAN :
          node_feed' = [k \in 1..Len(node_feed) |->
                          IF confirm /\ node_feed[k].height = 0
                          THEN [node_feed[k] EXCEPT !.height = Len(node_chain) + 1]
                          ELSE node_feed[k]]
    /\ EnvStep
    /\ UNCHANGED <<driverVars, handled, restarts, last_restart, page_no>>

\* the tip block is replaced by another block of the same height with the same transactions
ReorgTip ==
    /\ pc = "idle" \/ Running
    /\ node_next_hash <= MaxBlocks
    /\ node_chain' = [node_chain EXCEPT ![Len(node_chain)] = node_next_hash]
    /\ node_next_hash' = node_next_hash + 1
    /\ EnvStep
    /\ UNCHANGED <<node_feed, driverVars, handled, restarts, last_restart, page_no>>

\* a mempool transaction is double spent
ConflictTx ==
    /\ pc = "idle" \/ Running
    /\ \E k \in 1..Len(node_feed) :
          /\ node_feed[k].height = 0
          /\ node_feed' = [node_feed EXCEPT ![k].height = -1]
    /\ EnvStep
    /\ UNCHANGED <<node_chain, node_next_hash, driverVars, handled, restarts, last_restart, page_no>>

\* ---- load_transactions_since
\* lines 482-484: the call begins
Begin(init, floor) ==
    /\ pc = "idle"
    /\ init_per_page' = init
    /\ start_height' = floor
    /\ per_page' = init
    /\ start_index' = 0
    /\ oldest_seen' = NoEntry
    /\ pc' = "get_block_count"
    /\ UNCHANGED <<nodeVars, tip_height, tip_hash, chunk, exhausted, passVars>>

\* line 486
GetBlockCount ==
    /\ pc = "get_block_count"
    /\ tip_height' = Len(node_chain)
    /\ pc' = "get_block_hash"
    /\ UNCHANGED <<nodeVars, init_per_page, start_height, per_page, start_index, oldest_seen,
                   tip_hash, chunk, exhausted, passVars>>

\* line 487
GetBlockHash ==
    /\ pc = "get_block_hash"
    /\ tip_hash' = node_chain[tip_height]
    /\ pc' = "listtransactions"
    /\ UNCHANGED <<nodeVars, init_per_page, start_height, per_page, start_index, oldest_seen,
                   tip_height, chunk, exhausted, passVars>>

\* lines 495-505
ListTransactions ==
    /\ pc = "listtransactions"
    /\ chunk' = listtransactions(node_feed, node_chain, per_page, start_index)
    /\ exhausted' = (Len(chunk') < per_page)
    /\ page_no' = page_no + 1
    /\ pc' = "get_best_block_hash"
    /\ UNCHANGED <<nodeVars, init_per_page, start_height, per_page, start_index, oldest_seen,
                   tip_height, tip_hash, handled, restarts, last_restart, env_changed>>

\* lines 511 and 518: return load_transactions_since(rpc, per_page, start_height, chunk_handler)
Restart(why) ==
    /\ restarts' = restarts + 1
    /\ last_restart' = why
    /\ page_no' = 0
    /\ init_per_page' = per_page
    /\ start_index' = 0
    /\ oldest_seen' = NoEntry
    /\ pc' = IF restarts < MaxRestarts THEN "get_block_count" ELSE "capped"
    /\ UNCHANGED <<nodeVars, start_height, per_page, tip_height, tip_hash, chunk, exhausted,
                   handled, env_changed>>

\* lines 509-537: the best-block hash is read and the page is checked, handed to the
\* chunk handler and followed by the next page or by Ok(())
GetBestBlockHash ==
    /\ pc = "get_best_block_hash"
    /\ IF TipChanged(tip_hash, get_best_block_hash(node_chain))
       THEN Restart("tip")
       ELSE IF OverlapMismatch(oldest_seen, chunk)
       THEN Restart("overlap")
       ELSE LET popped == AfterPop(oldest_seen, chunk)
                lastrow == popped[Len(popped)]
                done == IF popped # << >>
                        THEN exhausted \/ BelowStartHeight(lastrow, tip_height, start_height)
                        ELSE exhausted
            IN  /\ chunk' = popped
                /\ exhausted' = done
                /\ oldest_seen' = IF popped # << >> THEN SomeEntry(lastrow) ELSE oldest_seen
                /\ handled' = IF popped # << >>
                              THEN Append(handled, [rows |-> popped, tip_height |-> tip_height])
                              ELSE handled
                /\ IF LoopContinues(done)
                   THEN /\ start_index' = start_index + per_page - 1
                        /\ per_page' = per_page * 2
                        /\ pc' = IF per_page * 2 <= MaxPerPage THEN "listtransactions" ELSE "capped"
                   ELSE /\ pc' = "ok"
                        /\ UNCHANGED <<start_index, per_page>>
                /\ UNCHANGED <<nodeVars, init_per_page, start_height, tip_height, tip_hash,
                               restarts, last_restart, env_changed, page_no>>

\* any node call may fail: the ? operator returns the error to the caller
RpcFail ==
    /\ Running
    /\ pc' = "err"
    /\ UNCHANGED <<nodeVars, init_per_page, start_height, per_page, start_index, oldest_seen,
                   tip_height, tip_hash, chunk, exhausted, passVars>>

StartPass == \E init \in 1..MaxInitPerPage, floor \in 0..MaxHeight : Begin(init, floor)

(***************************************************************************)
(* The index lock (addrman.rs): AddrManager.index is a RwLock<Index>.      *)
(* update_transactions holds its write lock for a whole pass and applies   *)
(* process_ltx to one record after the other; get_history and status_hash  *)
(* hold its read lock from their first line to their return.  The writer's *)
(* process_ltx is taken apart into the single map and set operations it    *)
(* makes, so that the states in between are states of the model.           *)
(***************************************************************************)
VARIABLES
    rw_writer,       \* the write lock of the index is held
    rw_readers,      \* the number of read locks of the index that are held
    w_pc,            \* where the writer is: "idle", "locked", or inside a record
    w_ltx,           \* the record the writer is processing
    w_old, w_new,    \* the old_txhist and new_txhist of the running update or purge
    w_left,          \* the scripthashes update_tx_status has yet to visit
    w_cur,           \* the scripthash whose old entry was removed and not yet replaced
    readers,         \* reader -> [pc, op, sh, history]
    observed,        \* what the last reader to return saw
    cascaded         \* update_tx_status has replaced an entry in some history

lockVars == <<rw_writer, rw_readers, w_pc, w_ltx, w_old, w_new, w_left, w_cur, readers, observed, cascaded>>

\* the readers are 1..NumReaders
NumReaders == 1
Readers == 1..NumReaders

NoLtx == [txid |-> 0, address |-> "", category |-> "", confirmations |-> 0, fee |-> None]
NoHist == HistoryEntry(0, Conflicted)
IdleReader == [pc |-> "idle", op |-> "none", sh |-> "", history |-> << >>, torn |-> FALSE]
NothingObserved == [op |-> "none", torn |-> FALSE, missing_tx |-> FALSE]

LockInit ==
    /\ rw_writer = FALSE
    /\ rw_readers = 0
    /\ w_pc = "idle"
    /\ w_ltx = NoLtx
    /\ w_old = NoHist
    /\ w_new = NoHist
    /\ w_left = {}
    /\ w_cur = ""
    /\ readers = [r \in Readers |-> IdleReader]
    /\ observed = NothingObserved
    /\ cascaded = FALSE

\* RwLock::write: granted when no lock is held
CanWrite(writer, reader_count) == ~writer /\ reader_count = 0

\* a read lock that is granted whatever the writer does
CanReadAlways(writer) == TRUE

\* RwLock::read: granted when the write lock is not held
CanRead(writer) == ~writer

\* line 90: self.index.write()
WriterAcquire ==
    /\ w_pc = "idle"
    /\ CanWrite(rw_writer, rw_readers)
    /\ rw_writer' = TRUE
    /\ w_pc' = "locked"
    /\ UNCHANGED <<rw_readers, w_ltx, w_old, w_new, w_left, w_cur, readers, observed, cascaded, indexVars>>

\* line 103: the guard is dropped when update_transactions returns
WriterRelease ==
    /\ w_pc = "locked"
    /\ rw_writer' = FALSE
    /\ w_pc' = "idle"
    /\ UNCHANGED <<rw_readers, w_ltx, w_old, w_new, w_left, w_cur, readers, observed, cascaded, indexVars>>

\* lines 188-199 and 252-268: process_ltx up to and including the write of the
\* TxEntry (index_tx_entry), or the removal of it (purge_tx, line 348)
WriterRecord(ltx, tip) ==
    LET status == TxStatus_new(ltx.confirmations, tip)
        txid == ltx.txid
        known == txid \in DOMAIN index_transactions
        curr_entry == index_transactions[txid]
        fee == IF ~curr_entry.fee.some /\ ltx.fee.some THEN ltx.fee ELSE curr_entry.fee
    IN  /\ w_pc = "locked"
        /\ w_ltx' = IF should_process(ltx.category) /\ (is_viable(status) \/ known)
                    THEN ltx ELSE NoLtx
        /\ IF ~should_process(ltx.category)
           THEN UNCHANGED <<w_pc, w_old, w_new, w_left, index_transactions>>
           ELSE IF ~is_viable(status)
           THEN IF known
                THEN /\ index_transactions' = [t \in DOMAIN index_transactions \ {txid} |->
                                                 index_transactions[t]]
                     /\ w_old' = HistoryEntry(txid, curr_entry.status)
                     /\ w_pc' = "purging"
                     /\ UNCHANGED <<w_new, w_left>>
                ELSE UNCHANGED <<w_pc, w_old, w_new, w_left, index_transactions>>
           ELSE IF known
           THEN /\ index_transactions' =
                      [index_transactions EXCEPT ![txid] = [status |-> status, fee |-> fee]]
                /\ IF curr_entry.status # status
                   THEN /\ w_old' = HistoryEntry(txid, curr_entry.status)
                        /\ w_new' = HistoryEntry(txid, status)
                        /\ w_left' = DOMAIN index_scripthashes
                        /\ w_pc' = "status"
                   ELSE /\ w_new' = HistoryEntry(txid, status)
                        /\ w_pc' = "history"
                        /\ UNCHANGED <<w_old, w_left>>
           ELSE /\ index_transactions' =
                      index_transactions @@ (txid :> [status |-> status, fee |-> ltx.fee])
                /\ w_new' = HistoryEntry(txid, status)
                /\ w_pc' = "history"
                /\ UNCHANGED <<w_old, w_left>>
        /\ UNCHANGED <<rw_writer, rw_readers, w_cur, readers, observed, cascaded,
                       index_scripthashes, watcher_used, index_last>>

WriterRecordStep ==
    \E tip \in Heights, confirmations \in -1..MaxHeight, txid \in Txids,
       address \in Addresses, category \in Categories :
       /\ confirmations <= tip
       /\ WriterRecord([txid |-> txid, address |-> address, category |-> category,
                        confirmations |-> confirmations, fee |-> None], tip)

\* line 339: history.remove(&old_txhist) returned true for the next scripthash
WriterRemove ==
    /\ w_pc = "status"
    /\ \E sh \in w_left :
          /\ BTContains("index", index_scripthashes[sh].history, w_old)
          /\ index_scripthashes' =
                [index_scripthashes EXCEPT ![sh].history = BTRemove("index", @, w_old)]
          /\ w_cur' = sh
    /\ w_pc' = "removed"
    /\ UNCHANGED <<rw_writer, rw_readers, w_ltx, w_old, w_new, w_left, readers, observed, cascaded,
                   index_transactions, watcher_used, index_last>>

\* line 340: history.insert(new_txhist.clone())
WriterInsert ==
    /\ w_pc = "removed"
    /\ index_scripthashes' =
          [index_scripthashes EXCEPT ![w_cur].history = BTInsert("index", @, w_new)]
    /\ w_left' = w_left \ {w_cur}
    /\ w_cur' = ""
    /\ w_pc' = "status"
    /\ cascaded' = TRUE
    /\ UNCHANGED <<rw_writer, rw_readers, w_ltx, w_old, w_new, readers, observed,
                   index_transactions, watcher_used, index_last>>

\* lines 338-342: the loop has no scripthash left whose history holds old_txhist
WriterStatusDone ==
    /\ w_pc = "status"
    /\ \A sh \in w_left : ~BTContains("index", index_scripthashes[sh].history, w_old)
    /\ w_left' = {}
    /\ w_old' = NoHist
    /\ w_pc' = "history"
    /\ UNCHANGED <<rw_writer, rw_readers, w_ltx, w_new, w_cur, readers, observed, cascaded, indexVars>>

\* lines 204-208: index_address_history
WriterHistory ==
    /\ w_pc = "history"
    /\ LET i == Index_index_address_history(CurIndex, w_ltx.address, w_new)
       IN  /\ index_scripthashes' = i.sh
           /\ watcher_used' = i.used
    /\ w_pc' = "locked"
    /\ w_ltx' = NoLtx
    /\ w_new' = NoHist
    /\ UNCHANGED <<rw_writer, rw_readers, w_old, w_left, w_cur, readers, observed, cascaded,
                   index_transactions, index_last>>

\* lines 355-359: the retain of purge_tx
WriterPurge ==
    /\ w_pc = "purging"
    /\ LET after(x) == BTRemove("index", index_scripthashes[x].history, w_old)
       IN  index_scripthashes' =
              [x \in {y \in DOMAIN index_scripthashes : Len(after(y)) > 0} |->
                 [index_scripthashes[x] EXCEPT !.history = after(x)]]
    /\ w_pc' = "locked"
    /\ w_ltx' = NoLtx
    /\ w_old' = NoHist
    /\ UNCHANGED <<rw_writer, rw_readers, w_new, w_left, w_cur, readers, observed, cascaded,
                   index_transactions, watcher_used, index_last>>

\* lines 107 and 125: self.index.read()
ReaderAcquire(r, op, sh) ==
    /\ readers[r].pc = "idle"
    /\ CanRead(rw_writer)
    /\ rw_readers' = rw_readers + 1
    /\ readers' = [readers EXCEPT ![r] = [IdleReader EXCEPT !.pc = "locked", !.op = op, !.sh = sh]]
    /\ UNCHANGED <<rw_writer, w_pc, w_ltx, w_old, w_new, w_left, w_cur, observed, cascaded, indexVars>>

\* lines 108-111 and 126: index.get_history(scripthash); status_hash returns here
ReaderHistory(r) ==
    LET me == readers[r]
        history == Index_get_history(CurIndex, me.sh)
        torn == w_pc = "removed" /\ w_cur = me.sh
    IN  /\ me.pc = "locked"
        /\ IF me.op = "status_hash"
           THEN /\ observed' = [op |-> me.op, torn |-> torn, missing_tx |-> FALSE]
                /\ readers' = [readers EXCEPT ![r] = IdleReader]
                /\ rw_readers' = rw_readers - 1
           ELSE /\ readers' = [readers EXCEPT ![r].pc = "history", ![r].history = history,
                                              ![r].torn = torn]
                /\ UNCHANGED <<observed, rw_readers>>
        /\ UNCHANGED <<rw_writer, w_pc, w_ltx, w_old, w_new, w_left, w_cur, cascaded, indexVars>>

\* lines 112-119: index.get_tx(&hist.txid).or_err("missing tx") for every entry, and
\* the return, which drops the read lock
ReaderTxs(r) ==
    LET me == readers[r]
    IN  /\ me.pc = "history"
        /\ observed' = [op |-> me.op, torn |-> me.torn,
                        missing_tx |-> \E k \in 1..Len(me.history) :
                                          me.history[k].txid \notin DOMAIN index_transactions]
        /\ readers' = [readers EXCEPT ![r] = IdleReader]
        /\ rw_readers' = rw_readers - 1
        /\ UNCHANGED <<rw_writer, w_pc, w_ltx, w_old, w_new, w_left, w_cur, cascaded, indexVars>>

ReaderAcquireStep ==
    \E r \in Readers, op \in {"get_history", "status_hash"}, sh \in ScriptHashes :
       ReaderAcquire(r, op, sh)

ReaderHistoryStep == \E r \in Readers : ReaderHistory(r)

ReaderTxsStep == \E r \in Readers : ReaderTxs(r)

(***************************************************************************)
(* Query Facade (addrman.rs): AddrManager::list_unspent and get_balance,   *)
(* one caller at a time, against the node of the Sync Driver section.  The *)
(* call holds the read lock of the index from its first line to its        *)
(* return, so the index does not change while lu_pc is not "idle".         *)
(***************************************************************************)
VARIABLES
    lu_pc,           \* the node call list_unspent makes next; "idle" between calls
    lu_op,           \* the facade operation called: "list_unspent" or "get_balance"
    lu_scripthash, lu_min_conf,
    lu_address, lu_tip_height, lu_tip_hash,
    lu_unspents,     \* the rows the listunspent request returned
    lu_retries,      \* the retries of the running call
    lu_result        \* what the last call returned

unspentVars == <<lu_pc, lu_op, lu_scripthash, lu_min_conf, lu_address, lu_tip_height,
                 lu_tip_hash, lu_unspents, lu_retries, lu_result>>

\* a call retries at most MaxUnspentRetries times, with min_conf in 0..MaxMinConf
MaxUnspentRetries == 2
MaxMinConf == 1

\* the node's listunspent min_conf 9999999 [address]: the wallet's outputs paid to
\* the address whose transaction is in the mempool or in the chain, with at least
\* min_conf confirmations
listunspent(feed, chain, min_conf, address) ==
    LET F[k \in 0..Len(feed)] ==
            IF k = 0 THEN << >>
            ELSE IF /\ feed[k].address = address
                    /\ Confirmations(feed[k], chain) >= 0
                    /\ Confirmations(feed[k], chain) >= min_conf
                 THEN Append(F[k - 1], [txid |-> feed[k].txid, vout |-> 0, amount |-> 5000,
                                        confirmations |-> Confirmations(feed[k], chain)])
                 ELSE F[k - 1]
    IN  F[Len(feed)]

\* Index::get_address
Index_get_address(i, scripthash) ==
    IF scripthash \in DOMAIN i.sh THEN Some(i.sh[scripthash].address) ELSE None

\* Utxo::from_unspent
Utxo_from_unspent(unspent, tip) ==
    [status |-> TxStatus_new(unspent.confirmations, tip), txid |-> unspent.txid,
     vout |-> unspent.vout, value |-> unspent.amount]

\* lines 151-155: the rows as Utxos, the viable ones only
ViableUtxos(unspents, tip) ==
    LET F[k \in 0..Len(unspents)] ==
            IF k = 0 THEN << >>
            ELSE IF is_viable(Utxo_from_unspent(unspents[k], tip).status)
                 THEN Append(F[k - 1], Utxo_from_unspent(unspents[k], tip))
                 ELSE F[k - 1]
    IN  F[Len(unspents)]

\* the sum of the values of the utxos with the given confirmed-ness
SumValues(utxos, confirmed) ==
    LET F[k \in 0..Len(utxos)] ==
            IF k = 0 THEN 0
            ELSE IF is_viable(utxos[k].status) /\ is_confirmed(utxos[k].status) = confirmed
                 THEN F[k - 1] + utxos[k].value
                 ELSE F[k - 1]
    IN  F[Len(utxos)]

\* Result<Vec<Utxo>> and Result<(u64, u64)>
NoResult == [kind |-> "none"]
Err(msg) == [kind |-> "err", msg |-> msg]
OkUtxos(utxos) == [kind |-> "ok", utxos |-> utxos]
OkBalance(utxos) ==
    [kind |-> "ok", confirmed |-> SumValues(utxos, TRUE), unconfirmed |-> SumValues(utxos, FALSE)]

\* lines 160-170: get_balance returns list_unspent's error, or the two sums
Returned(op, r) == IF op = "get_balance" /\ r.kind = "ok" THEN OkBalance(r.utxos) ELSE r

\* a tip check that never sees a change
UnspentTipChangedNever(captured_tip_hash, best_block_hash) == FALSE

\* line 146: tip_hash != self.rpc.get_best_block_hash()?
UnspentTipChanged(captured_tip_hash, best_block_hash) == captured_tip_hash # best_block_hash

UnspentInit ==
    /\ lu_pc = "idle"
    /\ lu_op = "none"
    /\ lu_scripthash = "SH1"
    /\ lu_min_conf = 0
    /\ lu_address = ""
    /\ lu_tip_height = 0
    /\ lu_tip_hash = 0
    /\ lu_unspents = << >>
    /\ lu_retries = 0
    /\ lu_result = NoResult

UnspentRunning == lu_pc \in {"get_block_count", "get_block_hash", "listunspent", "get_best_block_hash"}

\* lines 130-131 (and 160 for get_balance, which asks with min_conf 0)
ListUnspentBegin(op, scripthash, min_conf) ==
    /\ lu_pc = "idle"
    /\ op = "get_balance" => min_conf = 0
    /\ lu_op' = op
    /\ lu_scripthash' = scripthash
    /\ lu_min_conf' = min_conf
    /\ lu_retries' = 0
    /\ lu_unspents' = << >>
    /\ LET address == Index_get_address(CurIndex, scripthash)
       IN  IF address.some
           THEN /\ lu_address' = address.v
                /\ lu_pc' = "get_block_count"
                /\ lu_result' = NoResult
           ELSE /\ lu_address' = ""
                /\ lu_pc' = "idle"
                /\ lu_result' = Returned(op, Err("unknown scripthash"))
    /\ UNCHANGED <<lu_tip_height, lu_tip_hash>>

\* line 133
UnspentGetBlockCount ==
    /\ lu_pc = "get_block_count"
    /\ lu_tip_height' = Len(node_chain)
    /\ lu_pc' = "get_block_hash"
    /\ UNCHANGED <<lu_op, lu_scripthash, lu_min_conf, lu_address, lu_tip_hash, lu_unspents,
                   lu_retries, lu_result>>

\* line 134
UnspentGetBlockHash ==
    /\ lu_pc = "get_block_hash"
    /\ lu_tip_hash' = node_chain[lu_tip_height]
    /\ lu_pc' = "listunspent"
    /\ UNCHANGED <<lu_op, lu_scripthash, lu_min_conf, lu_address, lu_tip_height, lu_unspents,
                   lu_retries, lu_result>>

\* lines 136-144
ListUnspentCall ==
    /\ lu_pc = "listunspent"
    /\ lu_unspents' = listunspent(node_feed, node_chain, lu_min_conf, lu_address)
    /\ lu_pc' = "get_best_block_hash"
    /\ UNCHANGED <<lu_op, lu_scripthash, lu_min_conf, lu_address, lu_tip_height, lu_tip_hash,
                   lu_retries, lu_result>>

\* lines 146-155: the tip check, then the retry (the address lookup of the retried
\* call reads the same index under the same lock) or the result
UnspentGetBestBlockHash ==
    /\ lu_pc = "get_best_block_hash"
    /\ IF UnspentTipChanged(lu_tip_hash, get_best_block_hash(node_chain))
       THEN /\ lu_retries' = lu_retries + 1
            /\ lu_pc' = IF lu_retries < MaxUnspentRetries THEN "get_block_count" ELSE "capped"
            /\ UNCHANGED lu_result
       ELSE /\ lu_result' = Returned(lu_op, OkUtxos(ViableUtxos(lu_unspents, lu_tip_height)))
            /\ lu_pc' = "idle"
            /\ UNCHANGED lu_retries
    /\ UNCHANGED <<lu_op, lu_scripthash, lu_min_conf, lu_address, lu_tip_height, lu_tip_hash,
                   lu_unspents>>

\* any node call may fail: the ? operator returns the error to the caller
UnspentRpcFail ==
    /\ UnspentRunning
    /\ lu_result' = Returned(lu_op, Err("rpc"))
    /\ lu_pc' = "idle"
    /\ UNCHANGED <<lu_op, lu_scripthash, lu_min_conf, lu_address, lu_tip_height, lu_tip_hash,
                   lu_unspents, lu_retries>>

ListUnspentStep ==
    \E op \in {"list_unspent", "get_balance"}, scripthash \in ScriptHashes,
       min_conf \in 0..MaxMinConf : ListUnspentBegin(op, scripthash, min_conf)

\* the sync writer indexes one unconfirmed transaction at an address, between two
\* facade calls (it needs the write lock of the index)
UnspentIndexStep ==
    /\ lu_pc = "idle"
    /\ \E address \in Addresses :
          ProcessLtx([txid |-> 1, address |-> address, category |-> "receive",
                      confirmations |-> 0, fee |-> None], 1)

(***************************************************************************)
(* The read-only queries of MemoryStore, made by a caller between the      *)
(* mutations.  A query returns [ok, ret]: ok is FALSE when it panicked.    *)
(***************************************************************************)
VARIABLES
    answer           \* the last query made and what it returned

queryVars == <<answer>>

\* get_history_since is asked for the floors 0..MaxHeight + 1
MinHeights == 0..(MaxHeight + 1)

Answer(op, arg, ok, ret) == [op |-> op, arg |-> arg, ok |-> ok, ret |-> ret]
NoAnswer == Answer("none", 0, TRUE, 0)

\* lines 394-398: the take_while predicate is false on a confirmed entry below the
\* floor and hits unreachable!() on a conflicted one; either ends the scan
EndsScan(txhist, min_block_height) ==
    \/ txhist.status = Conflicted
    \/ is_confirmed(txhist.status) /\ U32Cmp(txhist.status.height, min_block_height) < 0

\* the last position of the history (the first one of the reversed iteration) at
\* which the scan ends, 0 when it runs through
ScanEnd(history, min_block_height) ==
    LET ends == {i \in 1..Len(history) : EndsScan(history[i], min_block_height)}
    IN  IF ends = {} THEN 0 ELSE CHOOSE i \in ends : \A j \in ends : j <= i

\* lines 390-398: history.iter().rev().take_while(..), as the set of entries taken
RevTakeWhile(history, min_block_height) ==
    {history[i] : i \in (ScanEnd(history, min_block_height) + 1)..Len(history)}

\* entries.sort_unstable(); entries.dedup(): the entries in the HistoryEntry order
RECURSIVE SortDedup(_)
SortDedup(entries) ==
    IF entries = {} THEN << >>
    ELSE LET e == CHOOSE x \in entries : TRUE
         IN  BTInsert("store", SortDedup(entries \ {e}), e)

\* MemoryStore::get_history_since
get_history_since(s, min_block_height) ==
    LET reaches_conflicted ==
            \E sh \in DOMAIN s.sh :
               LET k == ScanEnd(s.sh[sh].history, min_block_height)
               IN  k > 0 /\ s.sh[sh].history[k].status = Conflicted
        taken == UNION {RevTakeWhile(s.sh[sh].history, min_block_height) : sh \in DOMAIN s.sh}
    IN  IF reaches_conflicted
        THEN [ok |-> FALSE, ret |-> << >>]
        ELSE [ok |-> TRUE, ret |-> SortDedup(taken)]

\* Option<T> of a query result
Absent == [some |-> FALSE]
Present(v) == [some |-> TRUE, v |-> v]

\* MemoryStore::get_history
get_history(s, scripthash) ==
    IF scripthash \in DOMAIN s.sh THEN Present(s.sh[scripthash].history) ELSE Absent

\* MemoryStore::get_tx_count
get_tx_count(s, scripthash) ==
    IF scripthash \in DOMAIN s.sh THEN Len(s.sh[scripthash].history) ELSE 0

\* MemoryStore::get_tx_entry
get_tx_entry(s, txid) ==
    IF txid \in DOMAIN s.tx THEN Present(s.tx[txid]) ELSE Absent

\* MemoryStore::get_script_info and ScriptInfo::from_entry
get_script_info(s, scripthash) ==
    IF scripthash \in DOMAIN s.sh
    THEN Present([scripthash |-> scripthash, origin |-> s.sh[scripthash].origin])
    ELSE Absent

QueryInit == answer = NoAnswer

\* a mutation of the store between two queries; the caller drops the old answer
Mutate(step) == step /\ answer' = NoAnswer

GetHistorySince(min_block_height) ==
    LET r == get_history_since(CurStore, min_block_height)
    IN  /\ ~panicked
        /\ answer' = Answer("get_history_since", min_block_height, r.ok, r.ret)
        /\ UNCHANGED storeVars

GetHistorySinceStep == \E min_block_height \in MinHeights : GetHistorySince(min_block_height)

\* a query that cannot panic
Ask(op, arg, ret) ==
    /\ ~panicked
    /\ answer' = Answer(op, arg, TRUE, ret)
    /\ UNCHANGED storeVars

GetHistoryStep ==
    \E sh \in ScriptHashes : Ask("get_history", sh, get_history(CurStore, sh))

GetTxCountStep ==
    \E sh \in ScriptHashes : Ask("get_tx_count", sh, get_tx_count(CurStore, sh))

GetTxEntryStep ==
    \E txid \in Txids : Ask("get_tx_entry", txid, get_tx_entry(CurStore, txid))

GetScriptInfoStep ==
    \E sh \in ScriptHashes : Ask("get_script_info", sh, get_script_info(CurStore, sh))

(***************************************************************************)
(* A caller that makes upsert_tx calls only and keeps what each returned.  *)
(***************************************************************************)
VARIABLES
    upsert_log       \* the upsert_tx calls made, oldest first: [txid, status, ret]

upsertVars == <<upsert_log>>

\* the caller makes at most MaxUpsertCalls calls
MaxUpsertCalls == 4

UpsertLogInit == upsert_log = << >>

UpsertLogged(txid, status) ==
    /\ Len(upsert_log) < MaxUpsertCalls
    /\ UpsertTx(txid, status)
    /\ upsert_log' = Append(upsert_log, [txid |-> txid, status |-> status, ret |-> last'.ret])

UpsertLoggedStep == \E txid \in Txids, status \in TxStatus : UpsertLogged(txid, status)

(***************************************************************************)
(* TxStatus::new as a function of its two arguments, with the u32          *)
(* arithmetic of `tip_height - (confirmations as u32) + 1` made explicit.  *)
(* A build with overflow checks panics when a u32 operation leaves the     *)
(* u32 range, a build without them wraps.                                  *)
(***************************************************************************)
VARIABLES
    classified       \* the last call of TxStatus::new: its arguments, build and outcome

\* the arguments range over -MaxConfirmations..MaxConfirmations and 0..MaxTipHeight
MaxConfirmations == 6
MaxTipHeight == 6

Builds == {"overflow-checks", "wrapping"}

\* a - b in u32 leaves the range when b > a (both operands are small naturals here)
u32_sub_overflows(a, b) == U32Cmp(a, b) < 0

\* lines 425-434: what a call returns, or that it panicked
TxStatus_new_outcome(confirmations, tip, build) ==
    IF confirmations > 0 /\ u32_sub_overflows(tip, confirmations) /\ build = "overflow-checks"
    THEN [panic |-> TRUE, status |-> Conflicted]
    ELSE [panic |-> FALSE, status |-> TxStatus_new(confirmations, tip)]

NotClassified == [called |-> FALSE, confirmations |-> 0, tip_height |-> 0,
                  build |-> "wrapping", wrapped |-> FALSE, panic |-> FALSE, status |-> Conflicted]

ClassifyInit == classified = NotClassified

Classify(confirmations, tip, build) ==
    LET r == TxStatus_new_outcome(confirmations, tip, build)
    IN  classified' = [called |-> TRUE, confirmations |-> confirmations, tip_height |-> tip,
                       build |-> build,
                       wrapped |-> (confirmations > 0 /\ u32_sub_overflows(tip, confirmations)),
                       panic |-> r.panic, status |-> r.status]

ClassifyStep ==
    \E confirmations \in (0 - MaxConfirmations)..MaxConfirmations,
       tip \in 0..MaxTipHeight, build \in Builds :
       Classify(confirmations, tip, build)

classifyVars == <<classified>>

(***************************************************************************)
(* AddrManager::update (addrman.rs): update_transactions runs one          *)
(* load_transactions_since whose chunk handler applies process_ltx to the  *)
(* index for every row of the chunk, then the watcher's imports are made.  *)
(* The call in the source asks for pages of 25 rows from height 0; the     *)
(* page size is scaled down to 1..MaxInitPerPage here.                     *)
(***************************************************************************)
VARIABLES
    update_result,   \* what update returned: "none" while it runs, "ok" or "err"
    rpc_failed,      \* a node call of the running pass has failed
    handled_before   \* the chunks handled when the fetch last restarted

updateVars == <<update_result, rpc_failed, handled_before>>

\* the wallet of a node that update syncs with lists at most MaxUpdateFeed rows
MaxUpdateFeed == 4

UpdateInit ==
    /\ update_result = "none"
    /\ rpc_failed = FALSE
    /\ handled_before = 0

UpdateNewTx == NewTxWithin(MaxUpdateFeed)

\* lines 93-95: for ltx in chunk { index.process_ltx(ltx, tip_height, &mut watcher) }
ApplyChunk(i, rows, tip) ==
    LET F[k \in 0..Len(rows)] ==
            IF k = 0 THEN i
            ELSE Index_process_ltx(F[k - 1],
                                   [txid |-> rows[k].txid, address |-> rows[k].address,
                                    category |-> rows[k].category,
                                    confirmations |-> rows[k].confirmations, fee |-> None],
                                   tip)
    IN  F[Len(rows)]

\* the chunk handler of update_transactions, called by the step that handled a chunk
HandleChunk ==
    IF Len(handled') > Len(handled)
    THEN LET call == handled'[Len(handled')]
             lastrow == call.rows[Len(call.rows)]
         IN  /\ SetIndex(ApplyChunk(CurIndex, call.rows, call.tip_height))
             /\ index_last' =
                   [op |-> "process_ltx", txid |-> lastrow.txid,
                    addresses |-> IF should_process(lastrow.category)
                                     /\ is_viable(TxStatus_new(lastrow.confirmations, call.tip_height))
                                  THEN {lastrow.address} ELSE {}]
    ELSE UNCHANGED indexVars

\* lines 89-92: update_transactions calls load_transactions_since(rpc, 25, 0, handler)
UpdateBegin ==
    /\ \E init \in 1..MaxInitPerPage : Begin(init, 0)
    /\ UNCHANGED <<indexVars, updateVars>>

UpdateGetBestBlockHash ==
    /\ GetBestBlockHash
    /\ HandleChunk
    /\ handled_before' = IF restarts' > restarts THEN Len(handled) ELSE handled_before
    /\ UNCHANGED <<update_result, rpc_failed>>

\* an error that is taken for a changed tip: the fetch starts again
OnRpcErrorRetry(at) == "get_block_count"

\* the ? operator at lines 486, 487, 505 and 509: the function returns the Err
OnRpcError(at) == "err"

\* a node call of the pass fails
UpdateRpcFail ==
    /\ Running
    /\ pc' = OnRpcError(pc)
    /\ rpc_failed' = TRUE
    /\ UNCHANGED <<nodeVars, init_per_page, start_height, per_page, start_index, oldest_seen,
                   tip_height, tip_hash, chunk, exhausted, passVars, indexVars, update_result, handled_before>>

\* lines 97 and 82: update_transactions and update return the Err of the pass
UpdateReturnErr ==
    /\ pc = "err"
    /\ update_result = "none"
    /\ update_result' = "err"
    /\ UNCHANGED <<syncVars, indexVars, rpc_failed, handled_before>>

\* lines 84-86: the pass returned Ok(()); do_imports fails or update returns Ok(())
UpdateDoImports ==
    /\ pc = "ok"
    /\ update_result = "none"
    /\ update_result' \in {"ok", "err"}
    /\ UNCHANGED <<syncVars, indexVars, rpc_failed, handled_before>>

(***************************************************************************)
(* MemoryStore built with the track-spends feature (store.rs): txo_spends  *)
(* maps a spent outpoint to the input that spends it.                      *)
(***************************************************************************)
VARIABLES
    txo_spends,      \* OutPoint -> InPoint, the keys present only
    spend_recorded   \* the (prevout, input) pairs index_txo_spend was called with, for
                     \* the inputs of the transactions not purged since

spendVars == <<txo_spends, spend_recorded>>

InPoint(txid, vin) == [txid |-> txid, vin |-> vin]
Prevouts == {OutPoint(1, 0)}

SpendInit ==
    /\ txo_spends = EmptyMap
    /\ spend_recorded = {}

\* MemoryStore::index_txo_spend: HashMap::insert replaces the input recorded before
index_txo_spend(spends, spent_prevout, spending_input) ==
    [spends |-> [p \in DOMAIN spends \cup {spent_prevout} |->
                   IF p = spent_prevout THEN spending_input ELSE spends[p]],
     ret |-> spent_prevout \notin DOMAIN spends]

\* util::remove_if as purge_tx uses it on txo_spends: the edge is removed when its
\* input belongs to txid; the call returns whether the key existed
remove_if_spend(spends, prevout, txid) ==
    IF prevout \notin DOMAIN spends
    THEN [spends |-> spends, had_entry |-> FALSE]
    ELSE [spends |-> IF spends[prevout].txid = txid
                     THEN [p \in DOMAIN spends \ {prevout} |-> spends[p]]
                     ELSE spends,
          had_entry |-> TRUE]

\* lines 310-317: the loop of purge_tx over old_entry.spending, over the inputs vins
RECURSIVE purge_spends(_, _, _, _)
purge_spends(spends, spending, vins, txid) ==
    IF vins = {}
    THEN [spends |-> spends, ok |-> TRUE]
    ELSE LET vin == CHOOSE v \in vins : TRUE
             one == remove_if_spend(spends, spending[vin].prevout, txid)
         IN  IF one.had_entry
             THEN purge_spends(one.spends, spending, vins \ {vin}, txid)
             ELSE [spends |-> one.spends, ok |-> FALSE]

\* MemoryStore::purge_tx built with track-spends
purge_tx_track_spends(s, spends, txid) ==
    LET r == purge_tx(s, txid)
    IN  IF txid \notin DOMAIN s.tx \/ ~r.ok
        THEN [store |-> r, spends |-> spends]
        ELSE LET p == purge_spends(spends, s.tx[txid].spending,
                                   DOMAIN s.tx[txid].spending, txid)
             IN  [store |-> Result(r, p.ok, TRUE), spends |-> p.spends]

IndexTxoSpend(spent_prevout, spending_input) ==
    LET r == index_txo_spend(txo_spends, spent_prevout, spending_input)
    IN  /\ ~panicked
        /\ txo_spends' = r.spends
        /\ spend_recorded' = spend_recorded \cup {<<spent_prevout, spending_input>>}
        /\ last' = Call("index_txo_spend", spending_input.txid, r.ret)
        /\ UNCHANGED <<scripthashes, transactions, mempool, panicked, overwrites>>

PurgeTxTrackSpends(txid) ==
    LET r == purge_tx_track_spends(CurStore, txo_spends, txid)
    IN  /\ Commit(r.store, Call("purge_tx", txid, r.store.ret))
        /\ txo_spends' = IF r.store.ok THEN r.spends ELSE EmptyMap
        /\ spend_recorded' = {e \in spend_recorded : e[2].txid # txid}
        /\ UNCHANGED overwrites

TxoSpendStep ==
    \E prevout \in Prevouts, txid \in Txids, vin \in Vins :
       IndexTxoSpend(prevout, InPoint(txid, vin))

PurgeSpendsStep == \E txid \in Txids : PurgeTxTrackSpends(txid)

\* upsert_tx as the spend-tracking runs call it: the spend edges do not
\* depend on the status, one mempool and one confirmed status are enough
SpendStatuses == {Unconfirmed, Confirmed(1)}

SpendUpsertStep == \E txid \in Txids, status \in SpendStatuses : UpsertTx(txid, status)

(***************************************************************************)
(* Lock use of the AddrManager (addrman.rs): which guards each call holds  *)
(* and waits for.  update() takes the index write lock, then the watcher   *)
(* write lock, releases both when update_transactions returns and takes    *)
(* the watcher write lock again for do_imports.  get_history takes the     *)
(* index read lock for the length of the call.  list_unspent (and          *)
(* get_balance, which is list_unspent with min_conf = 0) takes the index   *)
(* read lock in its first line and, when the tip has changed, calls itself *)
(* at line 148 with that guard still alive: the inner call takes another   *)
(* read lock, and all of them are released when the innermost call         *)
(* returns.  The RwLock is one that admits no new reader while a writer    *)
(* waits.                                                                  *)
(***************************************************************************)
VARIABLES
    index_lock,      \* [writer, readers, waiting]: held for writing, read guards held, a writer waits
    watcher_lock,    \* the watcher's write lock is held
    u_pc,            \* where the update() caller is; "idle" between calls
    in_call,         \* caller -> [pc, op, held, tip]
    chain_tip        \* the number of tip changes the node has seen

guardVars == <<index_lock, watcher_lock, u_pc, in_call, chain_tip>>

\* the callers of list_unspent, get_balance and get_history are 1..NumCallers,
\* and the tip changes at most MaxTipChanges times
NumCallers == 2
MaxTipChanges == 2
Callers == 1..NumCallers
CallOps == {"list_unspent", "get_balance", "get_history"}

IdleCall == [pc |-> "idle", op |-> "none", held |-> 0, tip |-> 0]

GuardInit ==
    /\ index_lock = [writer |-> FALSE, readers |-> 0, waiting |-> FALSE]
    /\ watcher_lock = FALSE
    /\ u_pc = "idle"
    /\ in_call = [r \in Callers |-> IdleCall]
    /\ chain_tip = 0

\* RwLock::read of a lock that blocks new readers while a writer is waiting
CanReadBehindWriter(l) == ~l.writer /\ ~l.waiting

\* the node's tip changes
TipMoves ==
    /\ chain_tip < MaxTipChanges
    /\ chain_tip' = chain_tip + 1
    /\ UNCHANGED <<index_lock, watcher_lock, u_pc, in_call>>

\* a caller enters list_unspent, get_balance or get_history
CallBegin(r, op) ==
    /\ in_call[r].pc = "idle"
    /\ in_call' = [in_call EXCEPT ![r] = [pc |-> "read", op |-> op, held |-> 0, tip |-> 0]]
    /\ UNCHANGED <<index_lock, watcher_lock, u_pc, chain_tip>>

\* lines 107 and 130: self.index.read(), also the one of a retrying list_unspent
ReadIndex(r) ==
    /\ in_call[r].pc = "read"
    /\ CanReadBehindWriter(index_lock)
    /\ index_lock' = [index_lock EXCEPT !.readers = @ + 1]
    /\ in_call' = [in_call EXCEPT ![r].held = @ + 1,
                              ![r].pc = IF in_call[r].op = "get_history"
                                        THEN "history" ELSE "get_block_count"]
    /\ UNCHANGED <<watcher_lock, u_pc, chain_tip>>

\* the guards of a returning call are dropped
Return(r) ==
    /\ index_lock' = [index_lock EXCEPT !.readers = @ - in_call[r].held]
    /\ in_call' = [in_call EXCEPT ![r] = IdleCall]

\* lines 108-119: get_history reads the index and returns
GetHistoryReturn(r) ==
    /\ in_call[r].pc = "history"
    /\ Return(r)
    /\ UNCHANGED <<watcher_lock, u_pc, chain_tip>>

\* line 131: the scripthash is not indexed, the call returns an error
UnknownScripthash(r) ==
    /\ in_call[r].pc = "get_block_count"
    /\ Return(r)
    /\ UNCHANGED <<watcher_lock, u_pc, chain_tip>>

\* lines 133-144: the tip is captured and the unspent outputs are fetched
FetchUnspents(r) ==
    /\ in_call[r].pc = "get_block_count"
    /\ in_call' = [in_call EXCEPT ![r].tip = chain_tip, ![r].pc = "get_best_block_hash"]
    /\ UNCHANGED <<index_lock, watcher_lock, u_pc, chain_tip>>

\* lines 146-155: on a changed tip list_unspent calls itself, the guard of the
\* outer call being held; on an unchanged tip the result is returned
CheckTip(r) ==
    /\ in_call[r].pc = "get_best_block_hash"
    /\ IF in_call[r].tip # chain_tip
       THEN /\ in_call' = [in_call EXCEPT ![r].pc = "read"]
            /\ UNCHANGED index_lock
       ELSE Return(r)
    /\ UNCHANGED <<watcher_lock, u_pc, chain_tip>>

\* line 81: update() is called
UpdateCalled ==
    /\ u_pc = "idle"
    /\ u_pc' = "index_write"
    /\ UNCHANGED <<index_lock, watcher_lock, in_call, chain_tip>>

\* line 90: self.index.write() finds the lock held and waits
UpdateWaits ==
    /\ u_pc = "index_write"
    /\ ~CanWrite(index_lock.writer, index_lock.readers)
    /\ ~index_lock.waiting
    /\ index_lock' = [index_lock EXCEPT !.waiting = TRUE]
    /\ UNCHANGED <<watcher_lock, u_pc, in_call, chain_tip>>

\* line 90: self.index.write() is granted
UpdateWriteIndex ==
    /\ u_pc = "index_write"
    /\ CanWrite(index_lock.writer, index_lock.readers)
    /\ index_lock' = [index_lock EXCEPT !.writer = TRUE, !.waiting = FALSE]
    /\ u_pc' = "watcher_write"
    /\ UNCHANGED <<watcher_lock, in_call, chain_tip>>

\* line 91: self.watcher.write()
UpdateWriteWatcher ==
    /\ u_pc = "watcher_write"
    /\ ~watcher_lock
    /\ watcher_lock' = TRUE
    /\ u_pc' = "load_transactions_since"
    /\ UNCHANGED <<index_lock, in_call, chain_tip>>

\* lines 93-103 and 82: load_transactions_since returns, both guards are dropped,
\* and update() goes on to do_imports or returns the error
UpdateTransactionsReturn(ok) ==
    /\ u_pc = "load_transactions_since"
    /\ index_lock' = [index_lock EXCEPT !.writer = FALSE]
    /\ watcher_lock' = FALSE
    /\ u_pc' = IF ok THEN "do_imports_write" ELSE "idle"
    /\ UNCHANGED <<in_call, chain_tip>>

\* line 84: self.watcher.write()
UpdateImportsWrite ==
    /\ u_pc = "do_imports_write"
    /\ ~watcher_lock
    /\ watcher_lock' = TRUE
    /\ u_pc' = "do_imports"
    /\ UNCHANGED <<index_lock, in_call, chain_tip>>

\* lines 84-86: do_imports returns, the guard is dropped, update() returns
UpdateReturn ==
    /\ u_pc = "do_imports"
    /\ watcher_lock' = FALSE
    /\ u_pc' = "idle"
    /\ UNCHANGED <<index_lock, in_call, chain_tip>>

CallBeginStep == \E r \in Callers, op \in CallOps : CallBegin(r, op)
ReadIndexStep == \E r \in Callers : ReadIndex(r)
GetHistoryReturnStep == \E r \in Callers : GetHistoryReturn(r)
UnknownScripthashStep == \E r \in Callers : UnknownScripthash(r)
FetchUnspentsStep == \E r \in Callers : FetchUnspents(r)
CheckTipStep == \E r \in Callers : CheckTip(r)
UpdateTransactionsReturnStep == \E ok \in BOOLEAN : UpdateTransactionsReturn(ok)

extVars == <<lockVars, unspentVars, queryVars, upsertVars, classifyVars, updateVars, spendVars, guardVars>>

vars == <<storeVars, indexVars, syncVars, extVars>>

StoreNext ==
    \/ ScripthashStep /\ UNCHANGED <<indexVars, syncVars, extVars>>
    \/ UpsertStep /\ UNCHANGED <<indexVars, syncVars, extVars>>
    \/ FundingStep /\ UNCHANGED <<indexVars, syncVars, extVars>>
    \/ SpendingStep /\ UNCHANGED <<indexVars, syncVars, extVars>>
    \/ PurgeStep /\ UNCHANGED <<indexVars, syncVars, extVars>>

IndexNext ==
    \/ LtxStep /\ UNCHANGED <<storeVars, syncVars, extVars>>
    \/ GtxStep /\ UNCHANGED <<storeVars, syncVars, extVars>>

SyncNext ==
    \/ NewTx /\ UNCHANGED <<storeVars, indexVars, extVars>>
    \/ NewBlock /\ UNCHANGED <<storeVars, indexVars, extVars>>
    \/ ReorgTip /\ UNCHANGED <<storeVars, indexVars, extVars>>
    \/ ConflictTx /\ UNCHANGED <<storeVars, indexVars, extVars>>
    \/ StartPass /\ UNCHANGED <<storeVars, indexVars, extVars>>
    \/ GetBlockCount /\ UNCHANGED <<storeVars, indexVars, extVars>>
    \/ GetBlockHash /\ UNCHANGED <<storeVars, indexVars, extVars>>
    \/ ListTransactions /\ UNCHANGED <<storeVars, indexVars, extVars>>
    \/ GetBestBlockHash /\ UNCHANGED <<storeVars, indexVars, extVars>>
    \/ RpcFail /\ UNCHANGED <<storeVars, indexVars, extVars>>

ClassifyNext ==
    \/ ClassifyStep /\ UNCHANGED <<lockVars, storeVars, indexVars, syncVars, unspentVars, queryVars, upsertVars, updateVars, spendVars, guardVars>>

UpsertNext ==
    \/ UpsertLoggedStep /\ UNCHANGED <<lockVars, indexVars, syncVars, unspentVars, queryVars, classifyVars, updateVars, spendVars, guardVars>>

QueryNext ==
    \/ Mutate(ScripthashStep) /\ UNCHANGED <<lockVars, indexVars, syncVars, unspentVars, upsertVars, classifyVars, updateVars, spendVars, guardVars>>
    \/ Mutate(UpsertStep) /\ UNCHANGED <<lockVars, indexVars, syncVars, unspentVars, upsertVars, classifyVars, updateVars, spendVars, guardVars>>
    \/ Mutate(FundingStep) /\ UNCHANGED <<lockVars, indexVars, syncVars, unspentVars, upsertVars, classifyVars, updateVars, spendVars, guardVars>>
    \/ Mutate(PurgeStep) /\ UNCHANGED <<lockVars, indexVars, syncVars, unspentVars, upsertVars, classifyVars, updateVars, spendVars, guardVars>>
    \/ GetHistorySinceStep /\ UNCHANGED <<lockVars, indexVars, syncVars, unspentVars, upsertVars, classifyVars, updateVars, spendVars, guardVars>>
    \/ GetHistoryStep /\ UNCHANGED <<lockVars, indexVars, syncVars, unspentVars, upsertVars, classifyVars, updateVars, spendVars, guardVars>>
    \/ GetTxCountStep /\ UNCHANGED <<lockVars, indexVars, syncVars, unspentVars, upsertVars, classifyVars, updateVars, spendVars, guardVars>>
    \/ GetTxEntryStep /\ UNCHANGED <<lockVars, indexVars, syncVars, unspentVars, upsertVars, classifyVars, updateVars, spendVars, guardVars>>
    \/ GetScriptInfoStep /\ UNCHANGED <<lockVars, indexVars, syncVars, unspentVars, upsertVars, classifyVars, updateVars, spendVars, guardVars>>

UnspentNext ==
    \/ NewTx /\ UNCHANGED <<storeVars, indexVars, extVars>>
    \/ NewBlock /\ UNCHANGED <<storeVars, indexVars, extVars>>
    \/ ReorgTip /\ UNCHANGED <<storeVars, indexVars, extVars>>
    \/ ConflictTx /\ UNCHANGED <<storeVars, indexVars, extVars>>
    \/ UnspentIndexStep /\ UNCHANGED <<storeVars, syncVars, extVars>>
    \/ ListUnspentStep /\ UNCHANGED <<lockVars, storeVars, indexVars, syncVars, queryVars, upsertVars, classifyVars, updateVars, spendVars, guardVars>>
    \/ UnspentGetBlockCount /\ UNCHANGED <<lockVars, storeVars, indexVars, syncVars, queryVars, upsertVars, classifyVars, updateVars, spendVars, guardVars>>
    \/ UnspentGetBlockHash /\ UNCHANGED <<lockVars, storeVars, indexVars, syncVars, queryVars, upsertVars, classifyVars, updateVars, spendVars, guardVars>>
    \/ ListUnspentCall /\ UNCHANGED <<lockVars, storeVars, indexVars, syncVars, queryVars, upsertVars, classifyVars, updateVars, spendVars, guardVars>>
    \/ UnspentGetBestBlockHash /\ UNCHANGED <<lockVars, storeVars, indexVars, syncVars, queryVars, upsertVars, classifyVars, updateVars, spendVars, guardVars>>
    \/ UnspentRpcFail /\ UNCHANGED <<lockVars, storeVars, indexVars, syncVars, queryVars, upsertVars, classifyVars, updateVars, spendVars, guardVars>>

LockNext ==
    \/ WriterAcquire /\ UNCHANGED <<storeVars, syncVars, unspentVars, queryVars, upsertVars, classifyVars, updateVars, spendVars, guardVars>>
    \/ WriterRelease /\ UNCHANGED <<storeVars, syncVars, unspentVars, queryVars, upsertVars, classifyVars, updateVars, spendVars, guardVars>>
    \/ WriterRecordStep /\ UNCHANGED <<storeVars, syncVars, unspentVars, queryVars, upsertVars, classifyVars, updateVars, spendVars, guardVars>>
    \/ WriterRemove /\ UNCHANGED <<storeVars, syncVars, unspentVars, queryVars, upsertVars, classifyVars, updateVars, spendVars, guardVars>>
    \/ WriterInsert /\ UNCHANGED <<storeVars, syncVars, unspentVars, queryVars, upsertVars, classifyVars, updateVars, spendVars, guardVars>>
    \/ WriterStatusDone /\ UNCHANGED <<storeVars, syncVars, unspentVars, queryVars, upsertVars, classifyVars, updateVars, spendVars, guardVars>>
    \/ WriterHistory /\ UNCHANGED <<storeVars, syncVars, unspentVars, queryVars, upsertVars, classifyVars, updateVars, spendVars, guardVars>>
    \/ WriterPurge /\ UNCHANGED <<storeVars, syncVars, unspentVars, queryVars, upsertVars, classifyVars, updateVars, spendVars, guardVars>>
    \/ ReaderAcquireStep /\ UNCHANGED <<storeVars, syncVars, unspentVars, queryVars, upsertVars, classifyVars, updateVars, spendVars, guardVars>>
    \/ ReaderHistoryStep /\ UNCHANGED <<storeVars, syncVars, unspentVars, queryVars, upsertVars, classifyVars, updateVars, spendVars, guardVars>>
    \/ ReaderTxsStep /\ UNCHANGED <<storeVars, syncVars, unspentVars, queryVars, upsertVars, classifyVars, updateVars, spendVars, guardVars>>

UpdateNext ==
    \/ UpdateNewTx /\ UNCHANGED <<storeVars, indexVars, extVars>>
    \/ NewBlock /\ UNCHANGED <<storeVars, indexVars, extVars>>
    \/ ReorgTip /\ UNCHANGED <<storeVars, indexVars, extVars>>
    \/ ConflictTx /\ UNCHANGED <<storeVars, indexVars, extVars>>
    \/ UpdateBegin /\ UNCHANGED <<storeVars, lockVars, unspentVars, queryVars, upsertVars, classifyVars, spendVars, guardVars>>
    \/ GetBlockCount /\ UNCHANGED <<storeVars, indexVars, extVars>>
    \/ GetBlockHash /\ UNCHANGED <<storeVars, indexVars, extVars>>
    \/ ListTransactions /\ UNCHANGED <<storeVars, indexVars, extVars>>
    \/ UpdateGetBestBlockHash /\ UNCHANGED <<storeVars, lockVars, unspentVars, queryVars, upsertVars, classifyVars, spendVars, guardVars>>
    \/ UpdateRpcFail /\ UNCHANGED <<storeVars, lockVars, unspentVars, queryVars, upsertVars, classifyVars, spendVars, guardVars>>
    \/ UpdateReturnErr /\ UNCHANGED <<storeVars, lockVars, unspentVars, queryVars, upsertVars, classifyVars, spendVars, guardVars>>
    \/ UpdateDoImports /\ UNCHANGED <<storeVars, lockVars, unspentVars, queryVars, upsertVars, classifyVars, spendVars, guardVars>>

SpendNext ==
    \/ ScripthashStep /\ UNCHANGED <<spendVars, guardVars, lockVars, indexVars, syncVars, unspentVars, queryVars, upsertVars, classifyVars, updateVars>>
    \/ SpendUpsertStep /\ UNCHANGED <<spendVars, guardVars, lockVars, indexVars, syncVars, unspentVars, queryVars, upsertVars, classifyVars, updateVars>>
    \/ SpendingStep /\ UNCHANGED <<spendVars, guardVars, lockVars, indexVars, syncVars, unspentVars, queryVars, upsertVars, classifyVars, updateVars>>
    \/ TxoSpendStep /\ UNCHANGED <<guardVars, lockVars, indexVars, syncVars, unspentVars, queryVars, upsertVars, classifyVars, updateVars>>
    \/ PurgeSpendsStep /\ UNCHANGED <<guardVars, lockVars, indexVars, syncVars, unspentVars, queryVars, upsertVars, classifyVars, updateVars>>

AllInit == StoreInit /\ IndexInit /\ SyncInit /\ ClassifyInit /\ UpsertLogInit /\ QueryInit /\ UnspentInit /\ LockInit /\ UpdateInit /\ SpendInit /\ GuardInit

SpecStore == AllInit /\ [][StoreNext]_vars
SpecIndex == AllInit /\ [][IndexNext]_vars
SpecSync == AllInit /\ [][SyncNext]_vars
SpecClassify == AllInit /\ [][ClassifyNext]_vars
SpecUpsert == AllInit /\ [][UpsertNext]_vars
SpecQuery == AllInit /\ [][QueryNext]_vars
SpecUnspent == AllInit /\ [][UnspentNext]_vars
SpecLock == AllInit /\ [][LockNext]_vars
SpecUpdate == AllInit /\ [][UpdateNext]_vars
SpecSpend == AllInit /\ [][SpendNext]_vars

GuardOthers == <<storeVars, indexVars, syncVars, lockVars, unspentVars, queryVars, upsertVars, classifyVars, updateVars, spendVars>>

GuardNext ==
    \/ TipMoves /\ UNCHANGED GuardOthers
    \/ CallBeginStep /\ UNCHANGED GuardOthers
    \/ ReadIndexStep /\ UNCHANGED GuardOthers
    \/ GetHistoryReturnStep /\ UNCHANGED GuardOthers
    \/ UnknownScripthashStep /\ UNCHANGED GuardOthers
    \/ FetchUnspentsStep /\ UNCHANGED GuardOthers
    \/ CheckTipStep /\ UNCHANGED GuardOthers
    \/ UpdateCalled /\ UNCHANGED GuardOthers
    \/ UpdateWaits /\ UNCHANGED GuardOthers
    \/ UpdateWriteIndex /\ UNCHANGED GuardOthers
    \/ UpdateWriteWatcher /\ UNCHANGED GuardOthers
    \/ UpdateTransactionsReturnStep /\ UNCHANGED GuardOthers
    \/ UpdateImportsWrite /\ UNCHANGED GuardOthers
    \/ UpdateReturn /\ UNCHANGED GuardOthers

\* a call in progress is a running thread and the node calls return: a step
\* that stays possible is taken, and a lock that is free again and again is
\* obtained; nothing obliges a caller to start a call or the tip to change
CallProgress(r) ==
    (GetHistoryReturn(r) \/ UnknownScripthash(r) \/ FetchUnspents(r) \/ CheckTip(r))
       /\ UNCHANGED GuardOthers

UpdateProgress ==
    (UpdateWaits \/ UpdateWriteWatcher \/ UpdateTransactionsReturn(TRUE) \/ UpdateImportsWrite \/ UpdateReturn)
       /\ UNCHANGED GuardOthers

SpecGuard ==
    /\ AllInit
    /\ [][GuardNext]_vars
    /\ \A r \in Callers : WF_vars(CallProgress(r)) /\ SF_vars(ReadIndex(r) /\ UNCHANGED GuardOthers)
    /\ WF_vars(UpdateProgress)
    /\ SF_vars(UpdateWriteIndex /\ UNCHANGED GuardOthers)

\* load_transactions_since on a node that is at rest: the wallet feed and the
\* chain are built while no pass runs, then one pass runs to its end with
\* every node call succeeding
PassStep ==
    /\ GetBlockCount \/ GetBlockHash \/ ListTransactions \/ GetBestBlockHash
    /\ UNCHANGED <<storeVars, indexVars, extVars>>

QuietNext ==
    \/ pc = "idle" /\ NewTx /\ UNCHANGED <<storeVars, indexVars, extVars>>
    \/ pc = "idle" /\ NewBlock /\ UNCHANGED <<storeVars, indexVars, extVars>>
    \/ StartPass /\ UNCHANGED <<storeVars, indexVars, extVars>>
    \/ PassStep

\* the pass is sequential code whose node calls return: a step that can be
\* taken is taken
SpecSyncQuiet == AllInit /\ [][QuietNext]_vars /\ WF_vars(PassStep)

(***************************************************************************)
(* Properties of MemoryStore, checked under SpecStore.                     *)
(***************************************************************************)
HistoryOf(sh_map, sh) == IF sh \in DOMAIN sh_map THEN BTElems(sh_map[sh].history) ELSE {}

\* C1: when upsert_tx changes the status of a transaction T from old to new, every
\* scripthash that T's funding and spending maps reference holds HistoryEntry(T, new)
\* and no longer holds HistoryEntry(T, old), and the script entry of every other
\* scripthash is what it was before the call.
C1_StatusTransitionRewritesHistories ==
    [][\A t \in Txids :
          (/\ ~panicked'
           /\ t \in DOMAIN transactions /\ t \in DOMAIN transactions'
           /\ transactions'[t].status # transactions[t].status)
          => LET S == TxScriptHashes(transactions[t])
                 old == HistoryEntry(t, transactions[t].status)
                 new == HistoryEntry(t, transactions'[t].status)
             IN  /\ \A sh \in S : /\ new \in HistoryOf(scripthashes', sh)
                                  /\ old \notin HistoryOf(scripthashes', sh)
                 /\ \A sh \in ScriptHashes \ S :
                       /\ (sh \in DOMAIN scripthashes) = (sh \in DOMAIN scripthashes')
                       /\ sh \in DOMAIN scripthashes => scripthashes'[sh] = scripthashes[sh]]_vars

\* reached: upsert_tx has just changed the status of a transaction that funds one
\* scripthash, while the other scripthash holds a history of its own
C1_Witness ==
    /\ ~panicked
    /\ last.op = "upsert_tx" /\ last.ret
    /\ last.txid \in DOMAIN transactions
    /\ \E sh \in ScriptHashes :
          /\ TxScriptHashes(transactions[last.txid]) = {sh}
          /\ \E other \in ScriptHashes \ {sh} : HistoryOf(scripthashes, other) # {}

\* C2: a txid is a key of the mempool map exactly when it has a TxEntry whose status
\* is Unconfirmed.
C2_MempoolIsTheUnconfirmedSet ==
    mempool = {t \in DOMAIN transactions : is_unconfirmed(transactions[t].status)}

\* reached: upsert_tx has just moved a funded transaction (so one that was there
\* before) to a confirmed status, and it left the mempool map while the other
\* transaction is still in it
C2_Witness ==
    /\ ~panicked
    /\ last.op = "upsert_tx" /\ last.ret
    /\ last.txid \in DOMAIN transactions
    /\ DOMAIN transactions[last.txid].funding # {}
    /\ is_confirmed(transactions[last.txid].status)
    /\ last.txid \notin mempool
    /\ \E t \in mempool : t # last.txid

\* C3: purge_tx(txid) returns true exactly when a TxEntry exists (so false when it is
\* repeated at once); after it returns the TxEntry is absent, no history holds an
\* entry of that txid, and no script entry is left with a history the call emptied.
C3_PurgeRemovesEveryTrace ==
    [][(last'.op = "purge_tx" /\ ~panicked')
          => LET t == last'.txid
             IN  /\ last'.ret = (t \in DOMAIN transactions)
                 /\ t \notin DOMAIN transactions'
                 /\ (last.op = "purge_tx" /\ last.txid = t) => ~last'.ret
                 /\ last'.ret =>
                       /\ \A sh \in ScriptHashes :
                             \A e \in HistoryOf(scripthashes', sh) : e.txid # t
                       /\ \A sh \in DOMAIN scripthashes' :
                             (sh \in DOMAIN scripthashes /\ scripthashes[sh].history # << >>)
                                => scripthashes'[sh].history # << >>]_vars

\* C4: a script entry exists exactly when its history is not empty, in the store
\* and in the index.
C4_ScriptEntryIffHistory ==
    /\ \A sh \in DOMAIN scripthashes : scripthashes[sh].history # << >>
    /\ \A sh \in DOMAIN index_scripthashes : index_scripthashes[sh].history # << >>

\* C8: no stored TxEntry and no stored HistoryEntry has status Conflicted, in the
\* store and in the index.
C8_ConflictedIsNeverStored ==
    /\ \A t \in DOMAIN transactions : transactions[t].status # Conflicted
    /\ \A sh \in ScriptHashes : \A e \in HistoryOf(scripthashes, sh) : e.status # Conflicted
    /\ \A t \in DOMAIN index_transactions : index_transactions[t].status # Conflicted
    /\ \A sh \in ScriptHashes : \A e \in HistoryOf(index_scripthashes, sh) : e.status # Conflicted

(***************************************************************************)
(* Properties of Index, checked under SpecIndex.                           *)
(***************************************************************************)
\* C9: two distinct transactions with the same status that touch the same address
\* are both in that address's history once both have been indexed: when
\* process_ltx or process_gtx indexes T2 at an address whose history holds the
\* entry of another transaction T1 of the same status, both entries are there
\* after the call.
C9_SameStatusEntriesCoexist ==
    [][\A a \in index_last'.addresses :
          LET t2 == index_last'.txid
              sh == address_to_scripthash(a)
              st == index_transactions'[t2].status
          IN  \A t1 \in DOMAIN index_transactions \ {t2} :
                 (/\ index_transactions[t1].status = st
                  /\ HistoryEntry(t1, st) \in HistoryOf(index_scripthashes, sh))
                 => {HistoryEntry(t1, st), HistoryEntry(t2, st)}
                       \subseteq HistoryOf(index_scripthashes', sh)]_vars

\* C10: iterating a script's history yields the confirmed entries by ascending
\* height and the unconfirmed entries after them (Confirmed(5), Confirmed(10),
\* Unconfirmed for those three statuses), whatever the order of insertion.
C10_ConfirmedByHeightThenUnconfirmed ==
    \A sh \in DOMAIN index_scripthashes :
       LET h == index_scripthashes[sh].history
       IN  \A j \in 1..Len(h) : \A k \in (j + 1)..Len(h) :
              /\ ~(is_unconfirmed(h[j].status) /\ is_confirmed(h[k].status))
              /\ (is_confirmed(h[j].status) /\ is_confirmed(h[k].status))
                    => h[j].status.height < h[k].status.height

(***************************************************************************)
(* Properties of the Sync Driver, checked under SpecSync.                  *)
(***************************************************************************)
\* the number of times the chunk handler was handed a row of transaction t
Delivered(t) ==
    Cardinality({c \in {<<i, j>> : i \in 1..Len(handled), j \in 1..MaxPerPage} :
                   /\ c[2] <= Len(handled[c[1]].rows)
                   /\ handled[c[1]].rows[c[2]].txid = t})

\* C5: when the tip and the feed did not change during the pass and every node call
\* succeeded, a pass that has returned Ok has handed every feed row that is
\* unconfirmed or confirmed at a height >= start_height to the chunk handler
\* exactly once.
C5_EveryViableRowHandledOnce ==
    (pc = "ok" /\ ~env_changed)
       => \A k \in 1..Len(node_feed) :
             (node_feed[k].height = 0 \/ node_feed[k].height >= start_height)
                => Delivered(node_feed[k].txid) = 1

\* the step in which a fetched page passes both checks and is processed
PageProcessed == pc = "get_best_block_hash" /\ pc' \notin {pc, "err"} /\ restarts' = restarts

\* C6: a page is the last one of the pass exactly when it returned fewer rows than
\* requested or the row it keeps as oldest_seen is confirmed below start_height;
\* after a full page that is not below the floor a further page is requested.
C6_LastPageIffShortOrBelowFloor ==
    [][PageProcessed
          => ((pc' = "ok")
                 <=> \/ Len(chunk) < per_page
                     \/ /\ chunk' # << >>
                        /\ BelowStartHeight(chunk'[Len(chunk')], tip_height, start_height))]_vars

\* the step in which the best-block hash read after a page differs from the tip hash
TipChangeSeen ==
    /\ pc = "get_best_block_hash" /\ pc' \notin {pc, "err"}
    /\ tip_hash # get_best_block_hash(node_chain)

\* every chunk handed to the handler carries the captured tip height, and the block
\* at that height is the node's best block when the hash is read after the fetch
HandledUnderBestTip ==
    handled' # handled
       => LET c == handled'[Len(handled')]
          IN  /\ c.tip_height = tip_height
              /\ c.tip_height \in 1..Len(node_chain)
              /\ node_chain[c.tip_height] = get_best_block_hash(node_chain)

\* C7 as stated: after a tip change none of the page's rows reach the handler and
\* the fetch restarts at offset 0 with the initial page size and a tip that is
\* captured anew; every chunk handed over was fetched under the captured tip.
C7_RestartWithInitialPageSize ==
    [][/\ TipChangeSeen
          => /\ handled' = handled
             /\ start_index' = 0 /\ oldest_seen' = NoEntry
             /\ per_page' = init_per_page /\ init_per_page' = init_per_page
             /\ pc' \in {"get_block_count", "capped"}
       /\ HandledUnderBestTip]_vars

\* C7 as amended: the restart keeps the page size of the interrupted request as the
\* initial page size of the new attempt.
C7_RestartWithCurrentPageSize ==
    [][/\ TipChangeSeen
          => /\ handled' = handled
             /\ start_index' = 0 /\ oldest_seen' = NoEntry
             /\ per_page' = per_page /\ init_per_page' = per_page
             /\ pc' \in {"get_block_count", "capped"}
       /\ HandledUnderBestTip]_vars

\* reached: the fetch restarted on a tip change at its second page, with a page size
\* twice the one the pass began with, and the restarted attempt has handed a chunk
\* to the handler under the new tip and returned Ok
C7_Witness ==
    /\ pc = "ok" /\ last_restart = "tip" /\ restarts = 1
    /\ init_per_page = 2 /\ per_page = 2
    /\ handled # << >>
    /\ handled[Len(handled)].tip_height = Len(node_chain)
    /\ Len(node_chain) > 1

(***************************************************************************)
(* Properties of TxStatus::new, checked under SpecClassify.                *)
(***************************************************************************)
\* C11: negative confirmations classify as Conflicted, zero as Unconfirmed, and
\* confirmations c > 0 under tip height H as Confirmed(h) with H - h + 1 = c, and
\* no call panics on, or wraps around in, its u32 arithmetic.
C11_ClassifyRoundTripsWithoutOverflow ==
    classified.called
       => LET c == classified.confirmations
              H == classified.tip_height
          IN  /\ ~classified.panic
              /\ ~classified.wrapped
              /\ c < 0 => classified.status = Conflicted
              /\ c = 0 => classified.status = Unconfirmed
              /\ c > 0 => /\ is_confirmed(classified.status)
                          /\ classified.status.height \in 0..H
                          /\ H - classified.status.height + 1 = c

\* C12: index_tx_output_funding for a new (txid, vout) pair of an existing TxEntry
\* returns true and leaves HistoryEntry(txid, current status) in the history of the
\* funded scripthash, whether or not that scripthash had a ScriptEntry before.
C12_FundingCreatesTheScriptEntry ==
    [][(/\ last'.op = "index_tx_output_funding"
        /\ last'.txid \in DOMAIN transactions
        /\ \/ panicked'
           \/ DOMAIN transactions'[last'.txid].funding # DOMAIN transactions[last'.txid].funding)
          => /\ ~panicked'
             /\ last'.ret
             /\ LET t == last'.txid
                IN  \A v \in DOMAIN transactions'[t].funding \ DOMAIN transactions[t].funding :
                       HistoryEntry(t, transactions[t].status)
                          \in HistoryOf(scripthashes', transactions'[t].funding[v].sh)]_vars

(***************************************************************************)
(* Properties of upsert_tx call sequences, checked under SpecUpsert.       *)
(***************************************************************************)
\* the positions of the calls made for transaction t
CallsOf(t) == {i \in 1..Len(upsert_log) : upsert_log[i].txid = t}

\* the call for t made before call i, or 0 when call i is the first one
PreviousCallOf(t, i) ==
    IF \E j \in CallsOf(t) : j < i
    THEN CHOOSE j \in CallsOf(t) : j < i /\ \A k \in CallsOf(t) : k < i => k <= j
    ELSE 0

\* C13 as stated: over the upsert_tx calls made for one txid, the number of calls
\* that returned true equals the number of distinct status values passed.
C13_TrueOncePerDistinctStatus ==
    \A t \in Txids :
       Cardinality({i \in CallsOf(t) : upsert_log[i].ret})
          = Cardinality({upsert_log[i].status : i \in CallsOf(t)})

\* C13 as amended: a call returns true exactly when it is the first call for its
\* txid or its status differs from the status of the previous call for that txid,
\* so a status that comes back after another one counts again.
C13_TrueOnEveryStatusChange ==
    /\ ~panicked
    /\ \A t \in Txids : \A i \in CallsOf(t) :
          upsert_log[i].ret
             <=> \/ PreviousCallOf(t, i) = 0
                 \/ upsert_log[PreviousCallOf(t, i)].status # upsert_log[i].status

\* reached: one txid went Unconfirmed, Confirmed, Unconfirmed, Unconfirmed: three
\* calls returned true for two distinct statuses, and the repeated one false
C13_Witness ==
    /\ Len(upsert_log) = 4
    /\ \A i \in 1..4 : upsert_log[i].txid = 1
    /\ upsert_log[1].status = Unconfirmed /\ upsert_log[1].ret
    /\ is_confirmed(upsert_log[2].status) /\ upsert_log[2].ret
    /\ upsert_log[3].status = Unconfirmed /\ upsert_log[3].ret
    /\ upsert_log[4].status = Unconfirmed /\ ~upsert_log[4].ret

(***************************************************************************)
(* Properties of the MemoryStore queries, checked under SpecQuery.         *)
(***************************************************************************)
AllHistoryEntries == UNION {HistoryOf(scripthashes, sh) : sh \in ScriptHashes}

\* C14: get_history_since(min_height) returns exactly the history entries, over all
\* scripthashes, that are Unconfirmed or Confirmed(h) with h >= min_height, each
\* once, in the HistoryEntry order.
C14_HistorySinceIsExact ==
    answer.op = "get_history_since"
       => /\ answer.ok
          /\ BTElems(answer.ret)
                = {e \in AllHistoryEntries :
                     \/ is_unconfirmed(e.status)
                     \/ is_confirmed(e.status) /\ e.status.height >= answer.arg}
          /\ \A j \in 1..Len(answer.ret) : \A k \in (j + 1)..Len(answer.ret) :
                StoreHistoryCmp(answer.ret[j], answer.ret[k]) < 0

(***************************************************************************)
(* Properties of the Query Facade, checked under SpecUnspent.              *)
(***************************************************************************)
\* C15: a query for a scripthash or txid that is not indexed returns an empty or
\* absent result and never an error: get_history, get_tx_entry and get_script_info
\* return None and get_tx_count returns 0, and list_unspent and get_balance return
\* Ok with no utxo and a zero balance.
C15_NotFoundIsEmptyNotAnError ==
    /\ (answer.op \in {"get_history", "get_script_info"} /\ answer.arg \notin DOMAIN scripthashes)
          => answer.ok /\ answer.ret = Absent
    /\ (answer.op = "get_tx_count" /\ answer.arg \notin DOMAIN scripthashes)
          => answer.ok /\ answer.ret = 0
    /\ (answer.op = "get_tx_entry" /\ answer.arg \notin DOMAIN transactions)
          => answer.ok /\ answer.ret = Absent
    /\ (lu_pc = "idle" /\ lu_op = "list_unspent" /\ lu_scripthash \notin DOMAIN index_scripthashes)
          => lu_result = OkUtxos(<< >>)
    /\ (lu_pc = "idle" /\ lu_op = "get_balance" /\ lu_scripthash \notin DOMAIN index_scripthashes)
          => lu_result = OkBalance(<< >>)

(***************************************************************************)
(* Properties of the index lock, checked under SpecLock.                   *)
(***************************************************************************)
\* C16: no reader of the index (get_history, status_hash) reads a history from
\* which the writer has removed a transaction's old-status entry and not yet
\* inserted the new-status one, and no reader finds a history entry whose TxEntry
\* is missing; the write lock and the read locks are never held together.
C16_ReadersSeeNoTornUpdate ==
    /\ ~observed.torn
    /\ ~observed.missing_tx
    /\ \A r \in Readers : ~readers[r].torn
    /\ ~(rw_writer /\ rw_readers > 0)

\* reached: after a pass in which update_tx_status replaced an entry, a reader
\* holds the read lock and has read a history that is not empty
C16_Witness ==
    /\ cascaded
    /\ \E r \in Readers : readers[r].pc = "history" /\ readers[r].history # << >>


(***************************************************************************)
(* Properties of list_unspent's tip check, checked under SpecUnspent.      *)
(***************************************************************************)
\* C17: list_unspent (and get_balance through it) returns Ok only in the step whose
\* best-block hash equals the tip hash captured before the listunspent request of
\* the same attempt, the captured hash being the hash at the captured tip height;
\* every Utxo returned is viable and carries the status TxStatus::new gives a row
\* of that attempt's listunspent answer at that attempt's captured tip height.
C17_UnspentResultIsFromAnUnchangedTip ==
    [][(lu_pc = "get_best_block_hash" /\ lu_result'.kind = "ok")
          => /\ lu_tip_hash = get_best_block_hash(node_chain)
             /\ lu_tip_height = Len(node_chain)
             /\ lu_op = "list_unspent" =>
                   \A k \in 1..Len(lu_result'.utxos) :
                      /\ is_viable(lu_result'.utxos[k].status)
                      /\ \E j \in 1..Len(lu_unspents) :
                            /\ lu_unspents[j].txid = lu_result'.utxos[k].txid
                            /\ lu_result'.utxos[k].status =
                                  TxStatus_new(lu_unspents[j].confirmations, lu_tip_height)]_vars

\* a list_unspent call has returned utxos, a confirmed one among them, after a retry
C17_Witness ==
    /\ lu_pc = "idle"
    /\ lu_op = "list_unspent"
    /\ lu_result.kind = "ok"
    /\ lu_retries > 0
    /\ \E k \in 1..Len(lu_result.utxos) : is_confirmed(lu_result.utxos[k].status)


(***************************************************************************)
(* Properties of AddrManager::update, checked under SpecUpdate.            *)
(***************************************************************************)
\* C18: once a node call of a pass has failed (get_block_count, get_block_hash,
\* listtransactions or get_best_block_hash), the pass is at its Err return and stays
\* there, update never returns Ok, no chunk is handed to the chunk handler by the
\* failing step or after it, and the index stays as the chunks handled before the
\* failure left it.
C18_FailedNodeCallAbortsThePass ==
    [][rpc_failed' =>
          /\ pc' = "err"
          /\ update_result' \in {"none", "err"}
          /\ handled' = handled
          /\ index_scripthashes' = index_scripthashes
          /\ index_transactions' = index_transactions
          /\ watcher_used' = watcher_used]_vars

\* update returned the error of a node call that failed after a chunk was indexed
C18_Witness ==
    /\ rpc_failed
    /\ update_result = "err"
    /\ handled # << >>
    /\ index_transactions # EmptyMap
    /\ index_scripthashes # EmptyMap


(***************************************************************************)
(* Further properties of Index, checked under SpecIndex.                   *)
(***************************************************************************)
\* C20: a process_ltx or process_gtx call for transaction T (the status transition
\* of index_tx_entry/update_tx_status, or purge_tx) leaves in every history exactly
\* the entries of the other transactions that were there before it, and leaves an
\* entry of T only in a history that held one before or that belongs to an address
\* the call itself indexed.
C20_OnlyTheTransactionsOwnEntriesMove ==
    [][\A sh \in ScriptHashes :
          LET T == index_last'.txid
              before == HistoryOf(index_scripthashes, sh)
              after == HistoryOf(index_scripthashes', sh)
          IN  /\ {e \in before : e.txid # T} = {e \in after : e.txid # T}
              /\ (\E e \in after : e.txid = T) =>
                    \/ \E e \in before : e.txid = T
                    \/ sh \in {address_to_scripthash(a) : a \in index_last'.addresses}]_vars


(***************************************************************************)
(* Restart safety of AddrManager::update, checked under SpecUpdate.        *)
(***************************************************************************)
\* the index after the chunk handler was called with each of the calls in turn
ApplyCalls(i, calls) ==
    LET F[k \in 0..Len(calls)] ==
            IF k = 0 THEN i ELSE ApplyChunk(F[k - 1], calls[k].rows, calls[k].tip_height)
    IN  F[Len(calls)]

\* the chunks handled since the fetch last restarted, and the index that they
\* alone produce from the index the pass began with
SinceRestart == SubSeq(handled, handled_before + 1, Len(handled))
RestartFreeIndex == ApplyCalls(Idx(EmptyMap, EmptyMap, {}), SinceRestart)

\* C19: when a pass that handled chunks, then restarted, has returned Ok, the index
\* is the one the chunks handled since the restart alone produce; every viable row
\* of those chunks has its TxEntry with the status TxStatus::new gives it at the
\* chunk's tip height and exactly one HistoryEntry, with that status, in the
\* history of its address; and every HistoryEntry of the index carries the status
\* of its TxEntry.
C19_RestartedPassEqualsRestartFreePass ==
    (pc = "ok" /\ restarts > 0 /\ handled_before > 0) =>
       /\ index_scripthashes = RestartFreeIndex.sh
       /\ index_transactions = RestartFreeIndex.tx
       /\ \A c \in 1..Len(SinceRestart) : \A k \in 1..Len(SinceRestart[c].rows) :
             LET row == SinceRestart[c].rows[k]
                 status == TxStatus_new(row.confirmations, SinceRestart[c].tip_height)
             IN  (should_process(row.category) /\ is_viable(status)) =>
                    /\ row.txid \in DOMAIN index_transactions
                    /\ index_transactions[row.txid].status = status
                    /\ {e \in HistoryOf(index_scripthashes, address_to_scripthash(row.address)) :
                          e.txid = row.txid} = {HistoryEntry(row.txid, status)}
       /\ \A sh \in DOMAIN index_scripthashes : \A e \in HistoryOf(index_scripthashes, sh) :
             /\ e.txid \in DOMAIN index_transactions
             /\ e.status = index_transactions[e.txid].status


(***************************************************************************)
(* Consistency of the histories with the transactions, checked under       *)
(* SpecStore.                                                              *)
(***************************************************************************)
\* C21: every HistoryEntry(x, st) in the history of a scripthash s has a TxEntry for
\* x whose status is st and whose scripthashes() contains s.
C21_HistoryEntriesHaveTheirTxEntry ==
    \A s \in DOMAIN scripthashes : \A e \in HistoryOf(scripthashes, s) :
       /\ e.txid \in DOMAIN transactions
       /\ transactions[e.txid].status = e.status
       /\ s \in TxScriptHashes(transactions[e.txid])


\* C22: while no call has panicked, every scripthash s in the scripthashes() of a
\* TxEntry t with txid x has a ScriptEntry whose history contains
\* HistoryEntry(x, t.status), and neither an upsert_tx of x to another status (the
\* assertions of update_tx_status) nor a purge_tx of x would fail an assertion.
C22_ForwardReferencesAreIndexed ==
    ~panicked =>
       \A x \in DOMAIN transactions :
          LET t == transactions[x]
          IN  /\ \A s \in TxScriptHashes(t) :
                    /\ s \in DOMAIN scripthashes
                    /\ HistoryEntry(x, t.status) \in HistoryOf(scripthashes, s)
              /\ \A new_status \in TxStatus : upsert_tx(CurStore, x, new_status).ok
              /\ purge_tx(CurStore, x).ok


(***************************************************************************)
(* Properties of the spend edges, checked under SpecSpend.                 *)
(***************************************************************************)
\* every spending input of every transaction was recorded with index_txo_spend
SpendsRecorded ==
    \A t \in DOMAIN transactions : \A vin \in DOMAIN transactions[t].spending :
       <<transactions[t].spending[vin].prevout, InPoint(t, vin)>> \in spend_recorded

\* C23: when every spending input was recorded with index_txo_spend, purge_tx(T) on
\* a present T fails no assertion and returns true, removes every edge of a prevout
\* of T's spending map whose recorded spender is T, and leaves every other edge as
\* it was.
C23_PurgeRemovesItsOwnSpendEdges ==
    [][\A T \in Txids :
          (/\ ~panicked
           /\ T \in DOMAIN transactions
           /\ SpendsRecorded
           /\ last'.op = "purge_tx" /\ last'.txid = T)
          => /\ ~panicked'
             /\ last'.ret
             /\ \A p \in DOMAIN txo_spends :
                   IF /\ txo_spends[p].txid = T
                      /\ \E vin \in DOMAIN transactions[T].spending :
                            transactions[T].spending[vin].prevout = p
                   THEN p \notin DOMAIN txo_spends'
                   ELSE p \in DOMAIN txo_spends' /\ txo_spends'[p] = txo_spends[p]]_vars


(***************************************************************************)
(* C24: recorded funding and spending data is not overwritten without      *)
(* authorization.  In every state the store can reach without a panic,     *)
(* index_tx_output_funding on a (txid, vout) that is already recorded      *)
(* returns false and leaves the store as it was (the stored FundingInfo    *)
(* and every history included), whatever FundingInfo it is given; and      *)
(* index_tx_inputs_spending with allow_overwrite = false on a transaction  *)
(* whose spending map is not empty fails its assertion with the store as   *)
(* it was, whatever spending map it is given.                              *)
(***************************************************************************)
C24_RecordedDataIsNotOverwritten ==
    ~panicked =>
       \A txid \in DOMAIN transactions :
          /\ \A vout \in DOMAIN transactions[txid].funding, sh \in ScriptHashes, v \in Values :
                LET r == index_tx_output_funding(CurStore, txid, vout, FundingInfo(sh, v))
                IN  /\ r.ok
                    /\ ~r.ret
                    /\ Store(r.sh, r.tx, r.mp) = CurStore
          /\ DOMAIN transactions[txid].spending # {} =>
                \A spending \in SpendingMaps :
                   LET r == index_tx_inputs_spending(CurStore, txid, spending, FALSE)
                   IN  /\ ~r.ok
                       /\ Store(r.sh, r.tx, r.mp) = CurStore

\* a second index_tx_output_funding call on a recorded output has returned false
C24_Witness ==
    /\ ~panicked
    /\ last.op = "index_tx_output_funding"
    /\ last.ret = FALSE
    /\ last.txid \in DOMAIN transactions
    /\ DOMAIN transactions[last.txid].funding # {}
    /\ DOMAIN transactions[last.txid].spending # {}


\* the store a call returned
StoreOf(r) == Store(r.sh, r.tx, r.mp)

(***************************************************************************)
(* C25: every MemoryStore mutation is idempotent under re-application.     *)
(* From every state the store can reach without a panic, whenever a call   *)
(* of upsert_tx, index_scripthash, index_tx_output_funding,                *)
(* index_tx_inputs_spending (allow_overwrite = false), index_txo_spend or  *)
(* purge_tx succeeds, the same call with the same arguments made next      *)
(* raises no assertion and leaves the store as the first call left it.     *)
(***************************************************************************)
C25_MutationsAreIdempotent ==
    ~panicked =>
       /\ \A txid \in Txids, status \in TxStatus :
             LET r == upsert_tx(CurStore, txid, status)
                 q == upsert_tx(StoreOf(r), txid, status)
             IN  r.ok => q.ok /\ StoreOf(q) = StoreOf(r)
       /\ \A sh \in ScriptHashes, origin \in Origins :
             LET r == index_scripthash(CurStore, sh, origin)
                 q == index_scripthash(StoreOf(r), sh, origin)
             IN  r.ok => q.ok /\ StoreOf(q) = StoreOf(r)
       /\ \A txid \in Txids, vout \in Vouts, sh \in ScriptHashes, v \in Values :
             LET r == index_tx_output_funding(CurStore, txid, vout, FundingInfo(sh, v))
                 q == index_tx_output_funding(StoreOf(r), txid, vout, FundingInfo(sh, v))
             IN  r.ok => q.ok /\ StoreOf(q) = StoreOf(r)
       /\ \A txid \in Txids, spending \in SpendingMaps :
             LET r == index_tx_inputs_spending(CurStore, txid, spending, FALSE)
                 q == index_tx_inputs_spending(StoreOf(r), txid, spending, FALSE)
             IN  r.ok => q.ok /\ StoreOf(q) = StoreOf(r)
       /\ \A prevout \in Prevouts, txid \in Txids, vin \in Vins :
             LET r == index_txo_spend(txo_spends, prevout, InPoint(txid, vin))
                 q == index_txo_spend(r.spends, prevout, InPoint(txid, vin))
             IN  q.spends = r.spends
       /\ \A txid \in Txids :
             LET r == purge_tx(CurStore, txid)
                 q == purge_tx(StoreOf(r), txid)
             IN  r.ok => q.ok /\ StoreOf(q) = StoreOf(r)


\* C25 as the code has it: the repeated call is harmless for every mutation
\* but index_tx_inputs_spending with a non-empty spending map, whose second
\* call with allow_overwrite = false fails the assertion, the store still
\* being as the first call left it
C25_IdempotentButForRecordedSpending ==
    ~panicked =>
       /\ \A txid \in Txids, status \in TxStatus :
             LET r == upsert_tx(CurStore, txid, status)
                 q == upsert_tx(StoreOf(r), txid, status)
             IN  r.ok => q.ok /\ StoreOf(q) = StoreOf(r)
       /\ \A sh \in ScriptHashes, origin \in Origins :
             LET r == index_scripthash(CurStore, sh, origin)
                 q == index_scripthash(StoreOf(r), sh, origin)
             IN  r.ok => q.ok /\ StoreOf(q) = StoreOf(r)
       /\ \A txid \in Txids, vout \in Vouts, sh \in ScriptHashes, v \in Values :
             LET r == index_tx_output_funding(CurStore, txid, vout, FundingInfo(sh, v))
                 q == index_tx_output_funding(StoreOf(r), txid, vout, FundingInfo(sh, v))
             IN  r.ok => q.ok /\ StoreOf(q) = StoreOf(r)
       /\ \A txid \in Txids, spending \in SpendingMaps :
             LET r == index_tx_inputs_spending(CurStore, txid, spending, FALSE)
                 q == index_tx_inputs_spending(StoreOf(r), txid, spending, FALSE)
             IN  r.ok => /\ q.ok <=> DOMAIN spending = {}
                         /\ StoreOf(q) = StoreOf(r)
       /\ \A prevout \in Prevouts, txid \in Txids, vin \in Vins :
             LET r == index_txo_spend(txo_spends, prevout, InPoint(txid, vin))
                 q == index_txo_spend(r.spends, prevout, InPoint(txid, vin))
             IN  q.spends = r.spends
       /\ \A txid \in Txids :
             LET r == purge_tx(CurStore, txid)
                 q == purge_tx(StoreOf(r), txid)
             IN  r.ok => q.ok /\ StoreOf(q) = StoreOf(r)

\* index_tx_inputs_spending has recorded inputs of a transaction without
\* permission to overwrite and the store is intact: the same call made next
\* is the repeated call of the claim
C25_Witness ==
    /\ ~panicked
    /\ last.op = "index_tx_inputs_spending"
    /\ last.ret = FALSE
    /\ last.txid \in DOMAIN transactions
    /\ DOMAIN transactions[last.txid].spending # {}
    /\ overwrites = 0


(***************************************************************************)
(* C26: Sync Driver liveness.  If the chain tip and the feed stay          *)
(* unchanged from the start of a pass and every node call succeeds,        *)
(* load_transactions_since returns Ok without any restart (the             *)
(* page-overlap check reports no mismatch on an unchanged feed) after      *)
(* finitely many page requests, for every feed length.                     *)
(***************************************************************************)
C26_UnchangedFeedPassReturnsOk ==
    /\ [](~env_changed => restarts = 0 /\ last_restart = "none")
    /\ (pc = "get_block_count" /\ ~env_changed) ~> (pc = "ok" \/ env_changed)


(***************************************************************************)
(* C27: AddrManager lock use is deadlock-free.  With one update() caller   *)
(* and concurrent list_unspent, get_balance and get_history callers, under *)
(* a readers-writer lock that blocks new readers while a writer is         *)
(* waiting, every call that has begun eventually returns, the tip changing *)
(* finitely often; in particular a list_unspent call that retries after a  *)
(* tip change does not block forever behind a waiting writer.              *)
(***************************************************************************)
C27_EveryCallReturns ==
    /\ \A r \in Callers : (in_call[r].pc # "idle") ~> (in_call[r].pc = "idle")
    /\ (u_pc # "idle") ~> (u_pc = "idle")

=============================================================================
